---- MODULE Spec2Model ----
(***************************************************************************)
(* A model of the tool-calling orchestration loop of the course-materials  *)
(* RAG chatbot: AIGenerator (backend/ai_generator.py) driving the model    *)
(* provider through at most two tool rounds, and the retrieval tool layer  *)
(* CourseSearchTool, CourseOutlineTool and ToolManager                     *)
(* (backend/search_tools.py).                                              *)
(*                                                                         *)
(* Python values are modelled as follows.  An optional value is a sequence *)
(* of length at most one: None is <<>> and a present value v is <<v>>.     *)
(* Strings are TLA+ strings, built with \o exactly as the f-strings build  *)
(* them.  A call that may raise returns a record whose field `raised`      *)
(* tells whether it did.                                                   *)
(***************************************************************************)
EXTENDS Integers, Sequences, FiniteSets, TLC

VARIABLES
    tools,            \* ToolManager.tools: the dict, as its items in insertion order
    last_sources,     \* tool instance -> that instance's last_sources list
    mgr_ret,          \* what the last direct ToolManager call returned
    last_exec,        \* what the last direct execute_tool call was given and did to the store
    config,           \* the Config object constructed last (optional)
    vector_store,     \* the VectorStore object constructed last (optional)
    store_ret,        \* what the last direct Config or VectorStore call did
    max_in_flight,    \* how many queries the server lets run at the same time
    queries,          \* query -> its position, its executions and the citations it read
    writer,           \* tool instance -> the query whose execution wrote its last_sources
    pc,               \* position of generate_response
    in_tools,         \* argument tools of generate_response (list of definitions)
    in_manager,       \* argument tool_manager is given
    in_history,       \* argument conversation_history (optional)
    calls,            \* the calls of client.messages.create so far, each with its parameters
    responses,        \* the content of every response received so far
    stop1,            \* stop_reason of the first response (optional)
    messages,         \* _execute_tool_loop: messages
    current_response, \* _execute_tool_loop: current_response.content
    current_round,    \* _execute_tool_loop: current_round
    tool_results,     \* _execute_tool_loop: tool_results of the running round
    idx,              \* position of the for loop over current_response.content
    exec_log,         \* every tool_manager.execute_tool call made, in order
    gen_stores,       \* the behaviours the vector store may show to the tools of the query
    result            \* the outcome of generate_response

mgr_vars == <<tools, last_sources, mgr_ret, last_exec>>
gen_vars == <<pc, in_tools, in_manager, in_history, calls, responses, stop1, messages,
              current_response, current_round, tool_results, idx, exec_log, result>>
store_vars == <<config, vector_store, store_ret>>
query_vars == <<max_in_flight, queries, writer>>
ext_vars == <<store_vars, query_vars, gen_stores>>
vars == <<tools, last_sources, mgr_ret, last_exec, config, vector_store, store_ret,
          max_in_flight, queries, writer, pc, in_tools, in_manager, in_history, calls,
          responses, stop1, messages, current_response, current_round, tool_results,
          idx, exec_log, gen_stores, result>>

\* ---------------------------------------------------------------- bounds

\* The longest content (number of blocks) of a model response.
MaxBlocks == 2

\* ---------------------------------------------------------------- Python values

None == <<>>
Some(v) == <<v>>
IsNone(o) == Len(o) = 0
Val(o) == o[1]

\* Truthiness of an optional string: None and "" are falsy.
TruthyStr(o) == Len(o) = 1 /\ o[1] /= ""
\* Truthiness of an optional integer: None and 0 are falsy.
TruthyInt(o) == Len(o) = 1 /\ o[1] /= 0

RECURSIVE Join(_, _)
\* sep.join(parts)
Join(parts, sep) ==
    IF Len(parts) = 0 THEN ""
    ELSE IF Len(parts) = 1 THEN parts[1]
    ELSE parts[1] \o sep \o Join(Tail(parts), sep)

Returned(v) == [raised |-> FALSE, value |-> v]
Raised(msg) == [raised |-> TRUE, value |-> msg]

\* ---------------------------------------------------------------- the search provider

(***************************************************************************)
(* The vector store is an external collaborator of the tools.  One         *)
(* execution of a tool sees one behaviour of it, a record                  *)
(*   search  : what store.search does (raises, or returns SearchResults)   *)
(*   links   : whether store.get_lesson_link finds a link                  *)
(*   resolve : what store._resolve_course_name does                        *)
(*   get     : what store.course_catalog.get does                          *)
(***************************************************************************)

SearchResults(documents, metadata, error) ==
    [documents |-> documents, metadata |-> metadata, error |-> error]

\* SearchResults.is_empty, as the tests of SearchResults fix it.
is_empty(results) == Len(results.documents) = 0

\* store.get_lesson_link(course_title, lesson_num)
get_lesson_link(store, course_title, lesson_num) ==
    IF store.links
    THEN Some("https://example.com/" \o course_title \o "/" \o ToString(lesson_num))
    ELSE None

\* ---------------------------------------------------------------- CourseSearchTool

SEARCH_NAME == "search_course_content"
OUTLINE_NAME == "get_course_outline"

\* Binding the keyword arguments of a tool call to execute(query, course_name=None,
\* lesson_number=None): query is required, no other keyword is accepted.
SearchArgsBind(input) ==
    /\ "query" \in DOMAIN input
    /\ DOMAIN input \subseteq {"query", "course_name", "lesson_number"}

Arg(input, key) == IF key \in DOMAIN input THEN Some(input[key]) ELSE None

\* A header that tests the lesson number for truth: lesson 0 is left out.
ResultHeader_truthy_lesson(meta) ==
    "[" \o (IF IsNone(meta.course_title) THEN "unknown" ELSE Val(meta.course_title))
        \o (IF TruthyInt(meta.lesson_number)
            THEN " - Lesson " \o ToString(Val(meta.lesson_number)) ELSE "")
        \o "]"

\* The header of one result: [<title>] or [<title> - Lesson <n>].
ResultHeader(meta) ==
    "[" \o (IF IsNone(meta.course_title) THEN "unknown" ELSE Val(meta.course_title))
        \o (IF ~IsNone(meta.lesson_number)
            THEN " - Lesson " \o ToString(Val(meta.lesson_number)) ELSE "")
        \o "]"

\* The citation of one result.
ResultSource(store, meta) ==
    LET course_title == IF IsNone(meta.course_title) THEN "unknown"
                        ELSE Val(meta.course_title)
        lesson_num == meta.lesson_number
    IN  [text |-> course_title \o (IF ~IsNone(lesson_num)
                                   THEN " - Lesson " \o ToString(Val(lesson_num)) ELSE ""),
         link |-> IF ~IsNone(lesson_num)
                  THEN get_lesson_link(store, course_title, Val(lesson_num))
                  ELSE None]

\* zip(results.documents, results.metadata) stops at the shorter of the two.
ZipLen(results) ==
    IF Len(results.documents) < Len(results.metadata)
    THEN Len(results.documents) ELSE Len(results.metadata)

\* The calls of store.get_lesson_link that _format_results makes, in order.
HasLessonNum(meta) == ~IsNone(meta.lesson_number)
LinkLookup(meta) ==
    [method |-> "get_lesson_link",
     course_title |-> IF IsNone(meta.course_title) THEN "unknown" ELSE Val(meta.course_title),
     lesson_num |-> Val(meta.lesson_number)]
LinkLookups(results) ==
    LET zipped == SelectSeq(SubSeq(results.metadata, 1, ZipLen(results)), HasLessonNum)
    IN  [i \in 1..Len(zipped) |-> LinkLookup(zipped[i])]

\* CourseSearchTool._format_results: the text returned, the new last_sources and
\* the calls made to the store.
format_results(store, results) ==
    [raised |-> FALSE,
     store_calls |-> LinkLookups(results),
     value |-> Join([i \in 1..ZipLen(results) |->
                        ResultHeader(results.metadata[i]) \o "\n" \o results.documents[i]],
                    "\n\n"),
     sources |-> [i \in 1..ZipLen(results) |-> ResultSource(store, results.metadata[i])]]

\* The message of an empty result set.
EmptyMessage(course_name, lesson_number) ==
    "No relevant content found"
        \o (IF TruthyStr(course_name) THEN " in course '" \o Val(course_name) \o "'" ELSE "")
        \o (IF TruthyInt(lesson_number)
            THEN " in lesson " \o ToString(Val(lesson_number)) ELSE "")
        \o "."

\* The store methods a tool calls, as they appear in store_calls.
StoreSearch == [method |-> "search"]
StoreResolve == [method |-> "_resolve_course_name"]
StoreCatalogGet == [method |-> "course_catalog.get"]

\* An execute whose formatting appends the new citations to the stored ones.
search_execute_appending(store, input, sources) ==
    IF ~SearchArgsBind(input)
    THEN [raised |-> TRUE, value |-> "TypeError", sources |-> sources,
          store_calls |-> <<>>]
    ELSE IF store.search.raised
    THEN [raised |-> TRUE, value |-> store.search.value, sources |-> sources,
          store_calls |-> <<StoreSearch>>]
    ELSE LET results == store.search.value IN
         IF TruthyStr(results.error)
         THEN [raised |-> FALSE, value |-> Val(results.error), sources |-> sources,
               store_calls |-> <<StoreSearch>>]
         ELSE IF is_empty(results)
         THEN [raised |-> FALSE,
               value |-> EmptyMessage(Arg(input, "course_name"), Arg(input, "lesson_number")),
               sources |-> sources,
               store_calls |-> <<StoreSearch>>]
         ELSE LET formatted == format_results(store, results) IN
              [formatted EXCEPT !.store_calls = <<StoreSearch>> \o @,
                                !.sources = sources \o @]

\* An execute that tests for an empty result set before it tests for an error.
search_execute_empty_first(store, input, sources) ==
    IF ~SearchArgsBind(input)
    THEN [raised |-> TRUE, value |-> "TypeError", sources |-> sources,
          store_calls |-> <<>>]
    ELSE IF store.search.raised
    THEN [raised |-> TRUE, value |-> store.search.value, sources |-> sources,
          store_calls |-> <<StoreSearch>>]
    ELSE LET results == store.search.value IN
         IF is_empty(results)
         THEN [raised |-> FALSE,
               value |-> EmptyMessage(Arg(input, "course_name"), Arg(input, "lesson_number")),
               sources |-> sources,
               store_calls |-> <<StoreSearch>>]
         ELSE IF TruthyStr(results.error)
         THEN [raised |-> FALSE, value |-> Val(results.error), sources |-> sources,
               store_calls |-> <<StoreSearch>>]
         ELSE LET formatted == format_results(store, results) IN
              [formatted EXCEPT !.store_calls = <<StoreSearch>> \o @]

\* CourseSearchTool.execute(**input) on a tool whose last_sources is `sources`:
\* [raised, value, sources, store_calls]: sources is last_sources afterwards,
\* store_calls the calls made to the store, in order.
search_execute(store, input, sources) ==
    IF ~SearchArgsBind(input)
    THEN [raised |-> TRUE, value |-> "TypeError", sources |-> sources,
          store_calls |-> <<>>]
    ELSE IF store.search.raised
    THEN [raised |-> TRUE, value |-> store.search.value, sources |-> sources,
          store_calls |-> <<StoreSearch>>]
    ELSE LET results == store.search.value IN
         IF TruthyStr(results.error)
         THEN [raised |-> FALSE, value |-> Val(results.error), sources |-> sources,
               store_calls |-> <<StoreSearch>>]
         ELSE IF is_empty(results)
         THEN [raised |-> FALSE,
               value |-> EmptyMessage(Arg(input, "course_name"), Arg(input, "lesson_number")),
               sources |-> sources,
               store_calls |-> <<StoreSearch>>]
         ELSE LET formatted == format_results(store, results) IN
              [formatted EXCEPT !.store_calls = <<StoreSearch>> \o @]

\* ---------------------------------------------------------------- CourseOutlineTool

\* str(x) of an optional value inside an f-string.
FmtOptStr(o) == IF IsNone(o) THEN "None" ELSE Val(o)
FmtOptInt(o) == IF IsNone(o) THEN "None" ELSE ToString(Val(o))

\* Binding the keyword arguments of a tool call to execute(course_name).
OutlineArgsBind(input) == DOMAIN input = {"course_name"}

(***************************************************************************)
(* The stored lessons_json text is modelled by what json.loads makes of    *)
(* it: kind "empty" is the empty string, "invalid" is text json.loads      *)
(* rejects with JSONDecodeError, "list" is a JSON list of lesson objects   *)
(* (field lessons), "scalar" is valid JSON that is no list of objects (a   *)
(* number), over which the for loop raises TypeError.                      *)
(***************************************************************************)
LessonLines(lesson) ==
    <<"**Lesson " \o FmtOptInt(lesson.lesson_number) \o ":** "
        \o FmtOptStr(lesson.lesson_title)>>
    \o (IF TruthyStr(lesson.lesson_link)
        THEN <<"↳ " \o Val(lesson.lesson_link)>> ELSE <<>>)
    \o <<"">>

RECURSIVE AllLessonLines(_)
AllLessonLines(lessons) ==
    IF Len(lessons) = 0 THEN <<>>
    ELSE LessonLines(Head(lessons)) \o AllLessonLines(Tail(lessons))

\* CourseOutlineTool._format_outline(course_metadata)
format_outline(course_metadata) ==
    LET title == IF IsNone(course_metadata.title) THEN "Unknown Course"
                 ELSE Val(course_metadata.title)
        instructor == course_metadata.instructor
        course_link == course_metadata.course_link
        lessons_json == course_metadata.lessons_json
        lesson_count == IF IsNone(course_metadata.lesson_count) THEN 0
                        ELSE Val(course_metadata.lesson_count)
        header ==
            <<"**Course:** " \o title>>
            \o (IF TruthyStr(instructor)
                THEN <<"**Instructor:** " \o Val(instructor)>> ELSE <<>>)
            \o (IF TruthyStr(course_link)
                THEN <<"**Course Link:** " \o Val(course_link)>> ELSE <<>>)
            \o <<"", "**Course Outline** (" \o ToString(lesson_count) \o " lessons):", "">>
    IN  IF IsNone(lessons_json) \/ Val(lessons_json).kind = "empty"
        THEN Returned(Join(header \o <<"No lesson information available">>, "\n"))
        ELSE IF Val(lessons_json).kind = "invalid"
        THEN Returned(Join(header \o <<"Error: Unable to parse lesson information">>, "\n"))
        ELSE IF Val(lessons_json).kind = "scalar"
        THEN Raised("'int' object is not iterable")
        ELSE Returned(Join(header \o AllLessonLines(Val(lessons_json).lessons), "\n"))

\* An except branch that lets the fault go on to the caller.
CatalogFaultOutcome_reraised(msg, sources) ==
    [raised |-> TRUE, value |-> msg, sources |-> sources,
     store_calls |-> <<StoreResolve, StoreCatalogGet>>]

\* except Exception as e: return f"Error retrieving course outline: {str(e)}"
CatalogFaultOutcome(msg, sources) ==
    [raised |-> FALSE, value |-> "Error retrieving course outline: " \o msg,
     sources |-> sources, store_calls |-> <<StoreResolve, StoreCatalogGet>>]

\* A resolution inside the try: its fault becomes the error string.
ResolveFaultOutcome_caught(msg, sources) ==
    [raised |-> FALSE, value |-> "Error retrieving course outline: " \o msg,
     sources |-> sources, store_calls |-> <<StoreResolve>>]

\* self.store._resolve_course_name(course_name) raises, before the try: the
\* fault leaves execute.
ResolveFaultOutcome(msg, sources) ==
    [raised |-> TRUE, value |-> msg, sources |-> sources,
     store_calls |-> <<StoreResolve>>]

\* A citation of the course that carries no link.
OutlineSource_no_link(course_title, metadata) ==
    [text |-> course_title, link |-> None]

\* The citation of a course outline: {"text": course_title, "link": course_link or None}.
OutlineSource(course_title, metadata) ==
    [text |-> course_title,
     link |-> IF TruthyStr(metadata.course_link) THEN metadata.course_link ELSE None]

\* An execute that reads the catalog before it tests whether the name resolved.
outline_execute_fetch_first(store, input, sources) ==
    IF ~OutlineArgsBind(input)
    THEN [raised |-> TRUE, value |-> "TypeError", sources |-> sources,
          store_calls |-> <<>>]
    ELSE IF store.resolve.raised
    THEN ResolveFaultOutcome(store.resolve.value, sources)
    ELSE LET course_name == input.course_name
             course_title == store.resolve.value
         IN
         IF store.get.raised
         THEN CatalogFaultOutcome(store.get.value, sources)
         ELSE IF ~TruthyStr(course_title)
         THEN [raised |-> FALSE,
               value |-> "No course found matching '" \o course_name \o "'",
               sources |-> sources,
               store_calls |-> <<StoreResolve, StoreCatalogGet>>]
         ELSE IF Len(store.get.value) = 0
         THEN [raised |-> FALSE,
               value |-> "Course '" \o Val(course_title) \o "' found but metadata is missing",
               sources |-> sources,
               store_calls |-> <<StoreResolve, StoreCatalogGet>>]
         ELSE LET metadata == store.get.value[1]
                  formatted_outline == format_outline(metadata)
              IN  IF formatted_outline.raised
                  THEN CatalogFaultOutcome(formatted_outline.value, sources)
                  ELSE [raised |-> FALSE,
                        value |-> formatted_outline.value,
                        sources |-> <<OutlineSource(Val(course_title), metadata)>>,
                        store_calls |-> <<StoreResolve, StoreCatalogGet>>]

\* CourseOutlineTool.execute(**input) on a tool whose last_sources is `sources`.
outline_execute(store, input, sources) ==
    IF ~OutlineArgsBind(input)
    THEN [raised |-> TRUE, value |-> "TypeError", sources |-> sources,
          store_calls |-> <<>>]
    ELSE IF store.resolve.raised
    THEN ResolveFaultOutcome(store.resolve.value, sources)
    ELSE LET course_name == input.course_name
             course_title == store.resolve.value
         IN
         IF ~TruthyStr(course_title)
         THEN [raised |-> FALSE,
               value |-> "No course found matching '" \o course_name \o "'",
               sources |-> sources,
               store_calls |-> <<StoreResolve>>]
         ELSE IF store.get.raised
         THEN CatalogFaultOutcome(store.get.value, sources)
         ELSE IF Len(store.get.value) = 0
         THEN [raised |-> FALSE,
               value |-> "Course '" \o Val(course_title) \o "' found but metadata is missing",
               sources |-> sources,
               store_calls |-> <<StoreResolve, StoreCatalogGet>>]
         ELSE LET metadata == store.get.value[1]
                  formatted_outline == format_outline(metadata)
              IN  IF formatted_outline.raised
                  THEN CatalogFaultOutcome(formatted_outline.value, sources)
                  ELSE [raised |-> FALSE,
                        value |-> formatted_outline.value,
                        sources |-> <<OutlineSource(Val(course_title), metadata)>>,
                        store_calls |-> <<StoreResolve, StoreCatalogGet>>]

\* ---------------------------------------------------------------- ToolManager

\* The tool objects that exist, and the class of each.
\* search1 and search2 are two CourseSearchTool objects, outline1 is a
\* CourseOutlineTool, nameless1 is a Tool whose definition has no "name",
\* emptyname1 a Tool whose definition has the name "".
Instances == {"search1", "search2", "outline1", "nameless1", "emptyname1"}
Kind(inst) ==
    IF inst \in {"search1", "search2"} THEN "CourseSearchTool"
    ELSE IF inst = "outline1" THEN "CourseOutlineTool"
    ELSE IF inst = "emptyname1" THEN "EmptyNameTool"
    ELSE "NamelessTool"

\* tool.get_tool_definition().get("name")
DefName(inst) ==
    IF Kind(inst) = "CourseSearchTool" THEN Some(SEARCH_NAME)
    ELSE IF Kind(inst) = "CourseOutlineTool" THEN Some(OUTLINE_NAME)
    ELSE IF Kind(inst) = "EmptyNameTool" THEN Some("")
    ELSE None

\* tool.get_tool_definition(): the name and the required parameters stand for it.
get_tool_definition(inst) ==
    IF Kind(inst) = "CourseSearchTool"
    THEN [name |-> SEARCH_NAME, required |-> <<"query">>]
    ELSE [name |-> OUTLINE_NAME, required |-> <<"course_name">>]

\* tool_name in self.tools
Registered(reg, tool_name) == \E i \in 1..Len(reg) : reg[i].name = tool_name

\* self.tools[tool_name]
Lookup(reg, tool_name) ==
    reg[CHOOSE i \in 1..Len(reg) : reg[i].name = tool_name].inst

\* A registry kept as a list: every registration adds an entry.
DictSet_appending(reg, tool_name, inst) ==
    Append(reg, [name |-> tool_name, inst |-> inst])

\* self.tools[tool_name] = tool: a new key goes last, a known key keeps its place.
DictSet(reg, tool_name, inst) ==
    IF Registered(reg, tool_name)
    THEN [i \in 1..Len(reg) |->
            IF reg[i].name = tool_name THEN [name |-> tool_name, inst |-> inst] ELSE reg[i]]
    ELSE Append(reg, [name |-> tool_name, inst |-> inst])

\* A registration that rejects a missing name only.
register_tool_none_only(reg, inst) ==
    LET tool_name == DefName(inst) IN
    IF IsNone(tool_name)
    THEN [raised |-> TRUE, value |-> "Tool must have a 'name' in its definition",
          name |-> "", reg |-> reg]
    ELSE [raised |-> FALSE, value |-> "", name |-> Val(tool_name),
          reg |-> DictSet(reg, Val(tool_name), inst)]

\* ToolManager.register_tool(tool): [raised, value, name, reg], reg being
\* self.tools afterwards.
register_tool(reg, inst) ==
    LET tool_name == DefName(inst) IN
    IF ~TruthyStr(tool_name)
    THEN [raised |-> TRUE, value |-> "Tool must have a 'name' in its definition",
          name |-> "", reg |-> reg]
    ELSE [raised |-> FALSE, value |-> "", name |-> Val(tool_name),
          reg |-> DictSet(reg, Val(tool_name), inst)]

\* ToolManager.get_tool_definitions()
get_tool_definitions(reg) == [i \in 1..Len(reg) |-> get_tool_definition(reg[i].inst)]

\* tool.execute(**input) by the class of the tool.
tool_execute(inst, store, input, sources) ==
    IF Kind(inst) = "CourseSearchTool"
    THEN search_execute(store, input, sources)
    ELSE outline_execute(store, input, sources)

\* self.tools[tool_name].execute(**input): [raised, value, ran, srcs, store_calls]:
\* ran is the tool object whose execute was called (optional), srcs is every
\* tool's last_sources afterwards, store_calls the calls the tool made to the store.
dispatch_tool(reg, srcs, store, tool_name, input) ==
    LET inst == Lookup(reg, tool_name)
        r == tool_execute(inst, store, input, srcs[inst])
    IN  [raised |-> r.raised, value |-> r.value, ran |-> Some(inst),
         srcs |-> [srcs EXCEPT ![inst] = r.sources], store_calls |-> r.store_calls]

\* A lookup without the membership test: an unknown name raises KeyError.
execute_tool_unchecked(reg, srcs, store, tool_name, input) ==
    IF ~Registered(reg, tool_name)
    THEN [raised |-> TRUE, value |-> "KeyError: '" \o tool_name \o "'",
          ran |-> None, srcs |-> srcs, store_calls |-> <<>>]
    ELSE dispatch_tool(reg, srcs, store, tool_name, input)

\* ToolManager.execute_tool(tool_name, **input)
execute_tool(reg, srcs, store, tool_name, input) ==
    IF ~Registered(reg, tool_name)
    THEN [raised |-> FALSE, value |-> "Tool '" \o tool_name \o "' not found",
          ran |-> None, srcs |-> srcs, store_calls |-> <<>>]
    ELSE dispatch_tool(reg, srcs, store, tool_name, input)

RECURSIVE FirstSources(_, _, _)
\* The for loop of get_last_sources from position i on.
FirstSources(reg, srcs, i) ==
    IF i > Len(reg) THEN <<>>
    ELSE IF Len(srcs[reg[i].inst]) > 0 THEN srcs[reg[i].inst]
    ELSE FirstSources(reg, srcs, i + 1)

\* A loop in which a later tool's citations replace an earlier tool's.
get_last_sources_later_wins(reg, srcs) ==
    LET holding == {i \in 1..Len(reg) : Len(srcs[reg[i].inst]) > 0}
    IN  IF holding = {} THEN <<>>
        ELSE srcs[reg[CHOOSE i \in holding : \A j \in holding : j <= i].inst]

\* ToolManager.get_last_sources()
get_last_sources(reg, srcs) == FirstSources(reg, srcs, 1)

\* A reset that clears nothing.
reset_sources_nothing(reg, srcs) == srcs

\* A reset that clears the first registered tool only.
reset_sources_first_only(reg, srcs) ==
    [inst \in DOMAIN srcs |->
        IF Len(reg) > 0 /\ reg[1].inst = inst THEN <<>> ELSE srcs[inst]]

\* ToolManager.reset_sources(): last_sources afterwards.
reset_sources(reg, srcs) ==
    [inst \in DOMAIN srcs |->
        IF \E i \in 1..Len(reg) : reg[i].inst = inst THEN <<>> ELSE srcs[inst]]

\* ---------------------------------------------------------------- AIGenerator

\* The static system prompt (its text plays no part in the control flow).
SYSTEM_PROMPT == "You are an AI assistant specialized in course materials"

\* A loop that allows one round too many.
max_rounds_one_more == 2 + 1

\* max_rounds of _execute_tool_loop
max_rounds == 2

\* A system content that tests the history for None instead of for truth.
system_content_unless_none(conversation_history) ==
    IF ~IsNone(conversation_history)
    THEN SYSTEM_PROMPT \o "\n\nPrevious conversation:\n" \o Val(conversation_history)
    ELSE SYSTEM_PROMPT

\* system_content of generate_response
system_content(conversation_history) ==
    IF TruthyStr(conversation_history)
    THEN SYSTEM_PROMPT \o "\n\nPrevious conversation:\n" \o Val(conversation_history)
    ELSE SYSTEM_PROMPT

\* The keyword arguments of one client.messages.create call: tools and tool_choice
\* are optional keys.
ApiParams(msgs, system, tool_defs, with_tools) ==
    [messages |-> msgs,
     system |-> system,
     tools |-> IF with_tools THEN Some(tool_defs) ELSE None,
     tool_choice |-> IF with_tools THEN Some("auto") ELSE None]

\* A first response handled as a tool request whether or not a tool manager
\* was given.
handles_tool_use_without_manager(stop_reason, tool_manager) == stop_reason = "tool_use"

\* generate_response: `response.stop_reason == "tool_use" and tool_manager`
handles_tool_use(stop_reason, tool_manager) == stop_reason = "tool_use" /\ tool_manager

\* A check that takes any content for a tool request.
has_tool_use_any_content(content) == Len(content) > 0

\* any(block.type == "tool_use" for block in content)
has_tool_use(content) == \E i \in 1..Len(content) : content[i].type = "tool_use"

\* A return of the last block's text instead of the first's.
ReturnText_last_block(content) ==
    IF content[Len(content)].type = "text"
    THEN [kind |-> "answer", value |-> content[Len(content)].text]
    ELSE [kind |-> "fault", value |-> "AttributeError"]

\* response.content[0].text: a text block has the attribute, a tool_use block has
\* none, and reading it raises AttributeError to the caller.
ReturnText(content) ==
    IF content[1].type = "text"
    THEN [kind |-> "answer", value |-> content[1].text]
    ELSE [kind |-> "fault", value |-> "AttributeError"]

\* An except branch that raises the tool's fault again.
ToolFaultOutcome_reraised(msg) == [kind |-> "fault", value |-> msg]

\* The except branch of the tool execution: the failure message is the answer.
ToolFaultOutcome(msg) == [kind |-> "answer", value |-> "Tool execution failed: " \o msg]

\* A call wrapped in a try that answers with the error text.
ProviderFaultOutcome_caught(err) == [kind |-> "answer", value |-> "Error: " \o err]

\* client.messages.create is called outside any try: what it raises leaves
\* generate_response as it is.
ProviderFaultOutcome(err) == [kind |-> "provider_fault", value |-> err]

\* Results collected in reverse order.
AddToolResult_prepended(results, content_block, tool_result) ==
    <<[type |-> "tool_result", tool_use_id |-> content_block.id,
       content |-> tool_result]>> \o results

\* The texts by which a tool execution reports a failure without raising.
FailureTexts ==
    {"Tool '" \o SEARCH_NAME \o "' not found", "Tool '" \o OUTLINE_NAME \o "' not found",
     "Database connection failed", "No course found matching 'MCP'",
     "No relevant content found."}

\* A loop that sends the model no tool result for an execution that failed with
\* a text.
AddToolResult_failures_dropped(results, content_block, tool_result) ==
    IF tool_result \in FailureTexts
    THEN results
    ELSE Append(results, [type |-> "tool_result",
                          tool_use_id |-> content_block.id,
                          content |-> tool_result])

\* A loop that keeps the result of the first execution of a round only.
AddToolResult_first_only(results, content_block, tool_result) ==
    IF Len(results) > 0
    THEN results
    ELSE <<[type |-> "tool_result", tool_use_id |-> content_block.id,
            content |-> tool_result]>>

\* tool_results.append({...}) for the executed block and what it returned.
AddToolResult(results, content_block, tool_result) ==
    Append(results, [type |-> "tool_result",
                     tool_use_id |-> content_block.id,
                     content |-> tool_result])

\* ---------------------------------------------------------------- the environment

\* The user's question.
Query == "What is MCP?"

\* The conversation histories a query may come with.
Histories == {None, Some(""), Some("User: hi\nAssistant: hello")}

\* What a tool_use block of the model may ask for.
GenToolCalls ==
    {[name |-> SEARCH_NAME, input |-> [query |-> "MCP"]],
     [name |-> OUTLINE_NAME, input |-> [course_name |-> "MCP"]]}

\* The k-th response's j-th block: the provider gives every block its own text
\* and every tool_use block its own id.
TextBlock(k, j) ==
    [type |-> "text", text |-> "answer " \o ToString(k) \o "." \o ToString(j)]
ToolUseBlock(k, j, call) ==
    [type |-> "tool_use", id |-> "toolu_" \o ToString(k) \o "_" \o ToString(j),
     name |-> call.name, input |-> call.input]

BlocksAt(k, j) == {TextBlock(k, j)} \cup {ToolUseBlock(k, j, c) : c \in GenToolCalls}

\* Every content the k-th response may have: 1..MaxBlocks blocks of any type, in
\* any order, whatever the call offered (the provider is not trusted to answer a
\* call without tools with text only).
Contents(k) ==
    UNION {{c \in [1..n -> UNION {BlocksAt(k, j) : j \in 1..n}] :
                \A j \in 1..n : c[j] \in BlocksAt(k, j)} : n \in 1..MaxBlocks}

\* stop_reason is drawn independently of the content: a response cut short may
\* hold a tool_use block under another stop_reason ("end_turn" stands for every
\* value other than "tool_use").
StopReasons == {"end_turn", "tool_use"}

\* What client.messages.create may raise.
ProviderErrors == {"APIConnectionError", "AuthenticationError"}

\* A store that answers every request.
OkStore ==
    [search |-> Returned(SearchResults(
                    <<"MCP connects models to tools.">>,
                    <<[course_title |-> Some("MCP"), lesson_number |-> Some(1)]>>,
                    None)),
     links |-> TRUE,
     resolve |-> Returned(Some("MCP")),
     get |-> Returned(<<[title |-> Some("MCP"), instructor |-> None,
                         course_link |-> Some("https://example.com/MCP"),
                         lessons_json |-> None, lesson_count |-> Some(0)]>>)]

\* A store whose every request raises.
DownStore ==
    [search |-> Raised("store down"), links |-> FALSE,
     resolve |-> Raised("store down"), get |-> Raised("store down")]

GenStores == {OkStore, DownStore}

\* The registry a query runs with: both tools, registered in this order.
GenRegistry ==
    <<[name |-> SEARCH_NAME, inst |-> "search1"], [name |-> OUTLINE_NAME, inst |-> "outline1"]>>

NoResult == [kind |-> "none", value |-> ""]
NoRet == [op |-> "none", raised |-> FALSE, value |-> <<>>]
\* No Config and no VectorStore has been constructed or called.
StoreIdle ==
    /\ config = None
    /\ vector_store = None
    /\ store_ret = NoRet

\* The queries of SpecQueries, and the state of one that has not started: own is
\* what the last_sources of the tools would be had the query run alone.
Queries == {1, 2}
NewQuery ==
    [pc |-> "idle", execs |-> 0, own |-> [inst \in Instances |-> <<>>],
     read |-> None, read_from |-> None]

\* No query is being served.
QueriesIdle ==
    /\ max_in_flight = 1
    /\ queries = [q \in Queries |-> NewQuery]
    /\ writer = [inst \in Instances |-> None]

\* last_exec before any direct execute_tool call.
NoExec == [input |-> <<>>, store |-> OkStore, store_calls |-> <<>>, storer |-> None]

\* ---------------------------------------------------------------- generate_response

Init ==
    /\ tools = GenRegistry
    /\ last_sources = [inst \in Instances |-> <<>>]
    /\ mgr_ret = NoRet
    /\ last_exec = NoExec
    /\ StoreIdle
    /\ gen_stores = GenStores
    /\ QueriesIdle
    /\ pc = "start"
    /\ in_tools \in {<<>>, get_tool_definitions(GenRegistry)}
    /\ in_manager \in BOOLEAN
    /\ in_history \in Histories
    /\ calls = <<>>
    /\ responses = <<>>
    /\ stop1 = None
    /\ messages = <<>>
    /\ current_response = <<>>
    /\ current_round = 0
    /\ tool_results = <<>>
    /\ idx = 0
    /\ exec_log = <<>>
    /\ result = NoResult

\* generate_response up to the first response: the first call, then either the
\* direct return or the entry into _execute_tool_loop.
FirstCall ==
    /\ pc = "start"
    /\ LET api_params == ApiParams(<<[role |-> "user", content |-> Query]>>,
                                   system_content(in_history), in_tools, Len(in_tools) > 0)
       IN
       /\ calls' = Append(calls, api_params)
       /\ \E stop_reason \in StopReasons, content \in Contents(1) :
            /\ responses' = Append(responses, content)
            /\ stop1' = Some(stop_reason)
            /\ current_response' = content
            /\ IF handles_tool_use(stop_reason, in_manager)
               THEN /\ pc' = "loop"
                    /\ messages' = api_params.messages
                    /\ result' = result
               ELSE /\ pc' = "done"
                    /\ messages' = messages
                    /\ result' = ReturnText(content)
    /\ UNCHANGED <<ext_vars, mgr_vars, in_tools, in_manager, in_history, current_round,
                   tool_results, idx, exec_log>>

\* client.messages.create raises: the fault leaves generate_response uncaught.
FirstCallFaults ==
    /\ pc = "start"
    /\ calls' = Append(calls, ApiParams(<<[role |-> "user", content |-> Query]>>,
                                        system_content(in_history), in_tools,
                                        Len(in_tools) > 0))
    /\ pc' = "done"
    /\ \E err \in ProviderErrors : result' = ProviderFaultOutcome(err)
    /\ UNCHANGED <<ext_vars, mgr_vars, in_tools, in_manager, in_history, responses, stop1, messages,
                   current_response, current_round, tool_results, idx, exec_log>>

\* The head of the while loop: the round counter, the tool_use check and the
\* appended assistant message; or the loop's exit and the final return.
LoopHead ==
    /\ pc = "loop"
    /\ IF current_round < max_rounds
       THEN /\ current_round' = current_round + 1
            /\ IF has_tool_use(current_response)
               THEN /\ messages' = Append(messages, [role |-> "assistant",
                                                     content |-> current_response])
                    /\ tool_results' = <<>>
                    /\ idx' = 1
                    /\ pc' = "exec"
                    /\ result' = result
               ELSE /\ pc' = "done"
                    /\ result' = ReturnText(current_response)
                    /\ UNCHANGED <<messages, tool_results, idx>>
       ELSE /\ pc' = "done"
            /\ result' = ReturnText(current_response)
            /\ UNCHANGED <<current_round, messages, tool_results, idx>>
    /\ UNCHANGED <<ext_vars, tools, mgr_ret, last_sources, last_exec, in_tools, in_manager, in_history, calls,
                   responses, stop1, current_response, exec_log>>

\* One iteration of the for loop over the blocks: a tool_use block is executed
\* through the tool manager, any other block is passed over.
ExecBlock ==
    /\ pc = "exec"
    /\ idx <= Len(current_response)
    /\ LET content_block == current_response[idx] IN
       IF content_block.type = "tool_use"
       THEN \E store \in gen_stores :
              \E r \in {execute_tool(tools, last_sources, store,
                                     content_block.name, content_block.input)} :
                  /\ exec_log' = Append(exec_log, [id |-> content_block.id,
                                                   name |-> content_block.name,
                                                   round |-> current_round,
                                                   calls |-> Len(calls),
                                                   raised |-> r.raised,
                                                   value |-> r.value,
                                                   store |-> store])
                  /\ last_sources' = r.srcs
                  /\ IF r.raised
                     THEN /\ pc' = "done"
                          /\ result' = ToolFaultOutcome(r.value)
                          /\ UNCHANGED <<tool_results, idx>>
                     ELSE /\ tool_results' = AddToolResult(tool_results, content_block,
                                                           r.value)
                          /\ idx' = idx + 1
                          /\ UNCHANGED <<pc, result>>
       ELSE /\ idx' = idx + 1
            /\ UNCHANGED <<exec_log, last_sources, tool_results, pc, result>>
    /\ UNCHANGED <<ext_vars, tools, mgr_ret, last_exec, in_tools, in_manager, in_history, calls, responses,
                   stop1, messages, current_response, current_round>>

\* A next call that sends the query and the latest tool results only, without the
\* assistant messages and the earlier rounds.
RoundMessages_results_only ==
    <<messages[1], [role |-> "user", content |-> tool_results]>>

\* messages after the tool results of the round are appended.
RoundMessages ==
    IF Len(tool_results) > 0
    THEN Append(messages, [role |-> "user", content |-> tool_results])
    ELSE messages

\* A next call that attaches the tools whatever the round.
NextParams_tools_always ==
    ApiParams(RoundMessages, calls[1].system, in_tools, Len(in_tools) > 0)

\* next_params: the parameters of the call that ends a round.
NextParams ==
    LET include_tools == current_round < max_rounds
    IN  ApiParams(RoundMessages, calls[1].system, in_tools,
                  include_tools /\ Len(in_tools) > 0)

\* The end of a round: the tool results are appended and the next call is made.
NextCall ==
    /\ pc = "exec"
    /\ idx > Len(current_response)
    /\ messages' = RoundMessages
    /\ calls' = Append(calls, NextParams)
    /\ \E content \in Contents(Len(calls) + 1) :
            /\ responses' = Append(responses, content)
            /\ current_response' = content
    /\ pc' = "loop"
    /\ UNCHANGED <<ext_vars, mgr_vars, in_tools, in_manager, in_history, stop1, current_round,
                   tool_results, idx, exec_log, result>>

\* The call that ends a round raises: the fault leaves generate_response uncaught.
NextCallFaults ==
    /\ pc = "exec"
    /\ idx > Len(current_response)
    /\ messages' = RoundMessages
    /\ calls' = Append(calls, NextParams)
    /\ pc' = "done"
    /\ \E err \in ProviderErrors : result' = ProviderFaultOutcome(err)
    /\ UNCHANGED <<ext_vars, mgr_vars, in_tools, in_manager, in_history, responses, stop1,
                   current_response, current_round, tool_results, idx, exec_log>>

Next ==
    \/ FirstCall
    \/ FirstCallFaults
    \/ LoopHead
    \/ ExecBlock
    \/ NextCall
    \/ NextCallFaults

Spec == Init /\ [][Next]_vars

\* generate_response when every model call and every tool execution returns or
\* raises: a step that can be taken is taken.
SpecLive == Spec /\ WF_vars(Next)

\* ---------------------------------------------------------------- the ToolManager, called directly

\* The names execute_tool is called with.
AskedNames == {SEARCH_NAME, OUTLINE_NAME, "nonexistent_tool"}

\* The keyword arguments execute_tool is called with.
AskedInputs ==
    {[query |-> "MCP"],
     [query |-> "MCP", course_name |-> "X"],
     [query |-> "MCP", lesson_number |-> 5],
     [query |-> "MCP", course_name |-> "X", lesson_number |-> 5],
     [course_name |-> "X"]}

\* What store.search may do.
SearchBehaviours ==
    {Raised("store down"),
     Returned(SearchResults(<<>>, <<>>, Some("No course found matching 'X'"))),
     Returned(SearchResults(<<>>, <<>>, None)),
     Returned(SearchResults(<<"doc a">>,
                            <<[course_title |-> Some("C"), lesson_number |-> Some(2)]>>,
                            None)),
     Returned(SearchResults(<<"doc a", "doc b">>,
                            <<[course_title |-> Some("C"), lesson_number |-> Some(0)],
                              [course_title |-> Some("D"), lesson_number |-> None]>>,
                            None))}

\* What the stored catalog entry of a course may be.
CatalogEntries ==
    {[title |-> Some("C"), instructor |-> Some("Ann"),
      course_link |-> Some("https://example.com/C"),
      lessons_json |-> Some([kind |-> "list",
                             lessons |-> <<[lesson_number |-> Some(0),
                                            lesson_title |-> Some("Intro"),
                                            lesson_link |-> Some("https://example.com/C/0")],
                                           [lesson_number |-> Some(1),
                                            lesson_title |-> Some("Basics"),
                                            lesson_link |-> None]>>]),
      lesson_count |-> Some(2)],
     [title |-> Some("D"), instructor |-> None, course_link |-> None,
      lessons_json |-> None, lesson_count |-> None],
     [title |-> Some("D"), instructor |-> None, course_link |-> None,
      lessons_json |-> Some([kind |-> "invalid"]), lesson_count |-> Some(1)],
     [title |-> Some("D"), instructor |-> None, course_link |-> None,
      lessons_json |-> Some([kind |-> "scalar"]), lesson_count |-> Some(1)]}

\* What store._resolve_course_name and store.course_catalog.get may do together.
CatalogBehaviours ==
    {[resolve |-> Raised("store down"), get |-> Raised("store down")],
     [resolve |-> Returned(None), get |-> Returned(<<>>)],
     [resolve |-> Returned(Some("D")), get |-> Raised("store down")],
     [resolve |-> Returned(Some("D")), get |-> Returned(<<>>)]}
    \cup {[resolve |-> Returned(Some(Val(e.title))), get |-> Returned(<<e>>)] :
            e \in CatalogEntries}

\* The behaviours of the store that an execution of a tool of the given class may
\* meet: a search tool reads search and links, an outline tool resolve and get.
StoresFor(kind) ==
    IF kind = "CourseSearchTool"
    THEN {[OkStore EXCEPT !.search = s, !.links = l] :
            s \in SearchBehaviours, l \in BOOLEAN}
    ELSE {[OkStore EXCEPT !.resolve = c.resolve, !.get = c.get] : c \in CatalogBehaviours}

InitTools ==
    /\ tools = <<>>
    /\ last_sources = [inst \in Instances |-> <<>>]
    /\ mgr_ret = NoRet
    /\ last_exec = NoExec
    /\ StoreIdle
    /\ gen_stores = GenStores
    /\ QueriesIdle
    /\ pc = "idle"
    /\ in_tools = <<>>
    /\ in_manager = FALSE
    /\ in_history = None
    /\ calls = <<>>
    /\ responses = <<>>
    /\ stop1 = None
    /\ messages = <<>>
    /\ current_response = <<>>
    /\ current_round = 0
    /\ tool_results = <<>>
    /\ idx = 0
    /\ exec_log = <<>>
    /\ result = NoResult

\* What a direct ToolManager call leaves in mgr_ret: the operation, the name it
\* was given, whether it raised, its return value, the tool object it ran and
\* every tool's last_sources as they were before the call.
Ret(op, name, raised, value, ran) ==
    [op |-> op, name |-> name, raised |-> raised, value |-> value, ran |-> ran,
     before |-> last_sources]

\* ToolManager.register_tool(tool); mgr_ret keeps, besides the fields of Ret, the
\* tool object given and self.tools as it was before the call.
RegisterTool(inst) ==
    /\ pc = "idle"
    /\ \E r \in {register_tool(tools, inst)} :
       /\ mgr_ret' = Ret("register_tool", r.name, r.raised, r.value, None)
                        @@ [tool |-> inst, registry |-> tools]
       /\ tools' = r.reg
    /\ UNCHANGED <<ext_vars, last_sources, last_exec, gen_vars>>

\* ToolManager.get_tool_definitions()
GetToolDefinitions ==
    /\ pc = "idle"
    /\ mgr_ret' = Ret("get_tool_definitions", "", FALSE, get_tool_definitions(tools), None)
    /\ UNCHANGED <<ext_vars, tools, last_sources, last_exec, gen_vars>>

\* ToolManager.execute_tool(tool_name, **input)
ExecuteTool(tool_name, input, store) ==
    /\ pc = "idle"
    /\ \E r \in {execute_tool(tools, last_sources, store, tool_name, input)} :
       /\ mgr_ret' = Ret("execute_tool", tool_name, r.raised, r.value, r.ran)
       /\ last_sources' = r.srcs
    /\ UNCHANGED <<ext_vars, tools, last_exec, gen_vars>>

\* ToolManager.get_last_sources()
GetLastSources ==
    /\ pc = "idle"
    /\ mgr_ret' = Ret("get_last_sources", "", FALSE,
                      get_last_sources(tools, last_sources), None)
    /\ UNCHANGED <<ext_vars, tools, last_sources, last_exec, gen_vars>>

\* ToolManager.reset_sources()
ResetSources ==
    /\ pc = "idle"
    /\ mgr_ret' = Ret("reset_sources", "", FALSE, "", None)
    /\ last_sources' = reset_sources(tools, last_sources)
    /\ UNCHANGED <<ext_vars, tools, last_exec, gen_vars>>

NextTools ==
    \/ \E inst \in Instances : RegisterTool(inst)
    \/ GetToolDefinitions
    \/ \E tool_name \in AskedNames, input \in AskedInputs :
         \E store \in (IF Registered(tools, tool_name)
                       THEN StoresFor(Kind(Lookup(tools, tool_name)))
                       ELSE {OkStore}) :
            ExecuteTool(tool_name, input, store)
    \/ GetLastSources
    \/ ResetSources

SpecTools == InitTools /\ [][NextTools]_vars

\* ---------------------------------------------------------------- tool executions

(***************************************************************************)
(* SpecExec: the two tools of the application registered in either order,  *)
(* and executions of them through the ToolManager in which the arguments,  *)
(* the behaviour of the store and the calls made to the store are kept in  *)
(* last_exec, with get_last_sources and reset_sources in between.          *)
(***************************************************************************)

\* The orders in which the application may have registered its two tools.
ExecRegistries ==
    {<<[name |-> SEARCH_NAME, inst |-> "search1"],
       [name |-> OUTLINE_NAME, inst |-> "outline1"]>>,
     <<[name |-> OUTLINE_NAME, inst |-> "outline1"],
       [name |-> SEARCH_NAME, inst |-> "search1"]>>}

\* The arguments a tool of the given class is executed with; the last of each
\* set does not bind to the parameters of execute.
ExecInputs(kind) ==
    IF kind = "CourseSearchTool"
    THEN {[query |-> "MCP"],
          [query |-> "MCP", course_name |-> "X"],
          [query |-> "MCP", course_name |-> ""],
          [query |-> "MCP", lesson_number |-> 5],
          [query |-> "MCP", lesson_number |-> 0],
          [query |-> "MCP", course_name |-> "X", lesson_number |-> 5],
          [course_name |-> "X"]}
    ELSE {[course_name |-> "X"], [query |-> "MCP"]}

\* The behaviours of the store an execution may meet: those of StoresFor and, for
\* an outline tool, an unresolved name over a catalog that cannot be read, for a
\* search tool, results that carry both an error and a document.
ExecStores(kind) ==
    StoresFor(kind)
    \cup (IF kind = "CourseOutlineTool"
          THEN {[OkStore EXCEPT !.resolve = Returned(None), !.get = Raised("store down")]}
          ELSE {[OkStore EXCEPT
                   !.search = Returned(SearchResults(
                       <<"doc a">>,
                       <<[course_title |-> Some("C"), lesson_number |-> Some(2)]>>,
                       Some("Search error: store down")))]})

\* The executions that produce citations: a search that binds, meets no fault and
\* no error and finds documents; an outline whose course resolves and whose
\* catalog entry is read and formatted.
Produces(kind, input, store) ==
    IF kind = "CourseSearchTool"
    THEN /\ SearchArgsBind(input)
         /\ ~store.search.raised
         /\ ~TruthyStr(store.search.value.error)
         /\ Len(store.search.value.documents) > 0
    ELSE /\ OutlineArgsBind(input)
         /\ ~store.resolve.raised
         /\ TruthyStr(store.resolve.value)
         /\ ~store.get.raised
         /\ Len(store.get.value) > 0
         /\ \/ IsNone(store.get.value[1].lessons_json)
            \/ Val(store.get.value[1].lessons_json).kind /= "scalar"

InitExec ==
    /\ tools \in ExecRegistries
    /\ last_sources = [inst \in Instances |-> <<>>]
    /\ mgr_ret = NoRet
    /\ last_exec = NoExec
    /\ StoreIdle
    /\ gen_stores = GenStores
    /\ QueriesIdle
    /\ pc = "idle"
    /\ in_tools = <<>>
    /\ in_manager = FALSE
    /\ in_history = None
    /\ calls = <<>>
    /\ responses = <<>>
    /\ stop1 = None
    /\ messages = <<>>
    /\ current_response = <<>>
    /\ current_round = 0
    /\ tool_results = <<>>
    /\ idx = 0
    /\ exec_log = <<>>
    /\ result = NoResult

\* ToolManager.execute_tool(tool_name, **input), kept in last_exec: storer is the
\* tool object whose execution most lately produced citations.
TracedExecuteTool(tool_name, input, store) ==
    /\ pc = "idle"
    /\ \E r \in {execute_tool(tools, last_sources, store, tool_name, input)} :
       /\ mgr_ret' = Ret("execute_tool", tool_name, r.raised, r.value, r.ran)
       /\ last_sources' = r.srcs
       /\ last_exec' = [input |-> input, store |-> store, store_calls |-> r.store_calls,
                        storer |-> IF /\ ~IsNone(r.ran)
                                      /\ Produces(Kind(Val(r.ran)), input, store)
                                   THEN r.ran ELSE last_exec.storer]
    /\ UNCHANGED <<ext_vars, tools, gen_vars>>

NextExec ==
    \/ \E tool_name \in AskedNames :
         \E input \in (IF Registered(tools, tool_name)
                       THEN ExecInputs(Kind(Lookup(tools, tool_name)))
                       ELSE {[query |-> "MCP"]}) :
            \E store \in (IF Registered(tools, tool_name)
                          THEN ExecStores(Kind(Lookup(tools, tool_name)))
                          ELSE {OkStore}) :
               TracedExecuteTool(tool_name, input, store)
    \/ GetLastSources
    \/ ResetSources

SpecExec == InitExec /\ [][NextExec]_vars

\* ---------------------------------------------------------------- Config and VectorStore

(***************************************************************************)
(* SpecStore: construction of Config (backend/config.py) and of the search *)
(* provider VectorStore, and searches on a constructed VectorStore.  The   *)
(* code of VectorStore is not part of the sources at hand: its constructor *)
(* and its search are modelled from section 4.4 of the specification and   *)
(* from the calls its tests (tests/test_vector_store.py) expect on the two *)
(* collections, course_catalog and course_content.                         *)
(***************************************************************************)

\* A validation that rejects a negative MAX_RESULTS only.
NewConfigOutcome_zero_allowed(fields) ==
    IF fields.MAX_RESULTS < 0
    THEN Raised("Configuration Error: MAX_RESULTS must be positive, got "
                    \o ToString(fields.MAX_RESULTS) \o ". "
                    \o "Setting MAX_RESULTS to 0 will cause all searches to return empty results.")
    ELSE IF fields.ANTHROPIC_API_KEY = ""
    THEN Raised("Configuration Error: ANTHROPIC_API_KEY is required. "
                    \o "Please set it in your .env file.")
    ELSE Returned(fields)

\* A Config that accepts an overlap as large as the chunk.
NewConfigOutcome_overlap_up_to_size(fields) ==
    IF fields.MAX_RESULTS <= 0
    THEN Raised("Configuration Error: MAX_RESULTS must be positive, got "
                    \o ToString(fields.MAX_RESULTS) \o ". "
                    \o "Setting MAX_RESULTS to 0 will cause all searches to return empty results.")
    ELSE IF fields.ANTHROPIC_API_KEY = ""
    THEN Raised("Configuration Error: ANTHROPIC_API_KEY is required. "
                    \o "Please set it in your .env file.")
    ELSE IF fields.CHUNK_SIZE <= 0
    THEN Raised("Configuration Error: CHUNK_SIZE must be positive, got "
                    \o ToString(fields.CHUNK_SIZE))
    ELSE IF fields.CHUNK_OVERLAP < 0 \/ fields.CHUNK_OVERLAP > fields.CHUNK_SIZE
    THEN Raised("Configuration Error: CHUNK_OVERLAP must be between 0 and CHUNK_SIZE. "
                    \o "Got CHUNK_OVERLAP=" \o ToString(fields.CHUNK_OVERLAP)
                    \o ", CHUNK_SIZE=" \o ToString(fields.CHUNK_SIZE))
    ELSE Returned(fields)

\* Config(**fields): __post_init__ raises ValueError on the first check that fails.
NewConfigOutcome(fields) ==
    IF fields.MAX_RESULTS <= 0
    THEN Raised("Configuration Error: MAX_RESULTS must be positive, got "
                    \o ToString(fields.MAX_RESULTS) \o ". "
                    \o "Setting MAX_RESULTS to 0 will cause all searches to return empty results.")
    ELSE IF fields.ANTHROPIC_API_KEY = ""
    THEN Raised("Configuration Error: ANTHROPIC_API_KEY is required. "
                    \o "Please set it in your .env file.")
    ELSE IF fields.CHUNK_SIZE <= 0
    THEN Raised("Configuration Error: CHUNK_SIZE must be positive, got "
                    \o ToString(fields.CHUNK_SIZE))
    ELSE IF fields.CHUNK_OVERLAP < 0 \/ fields.CHUNK_OVERLAP >= fields.CHUNK_SIZE
    THEN Raised("Configuration Error: CHUNK_OVERLAP must be between 0 and CHUNK_SIZE. "
                    \o "Got CHUNK_OVERLAP=" \o ToString(fields.CHUNK_OVERLAP)
                    \o ", CHUNK_SIZE=" \o ToString(fields.CHUNK_SIZE))
    ELSE Returned(fields)

\* VectorStore(chroma_path, embedding_model, max_results)
NewVectorStoreOutcome(max_results) ==
    IF max_results <= 0
    THEN Raised("max_results must be positive, got " \o ToString(max_results))
    ELSE Returned([max_results |-> max_results])

\* The calls VectorStore.search makes on its two collections.
CatalogQuery(course_name) ==
    [collection |-> "course_catalog", query_texts |-> <<course_name>>]
ContentQuery(query, n_results, where) ==
    [collection |-> "course_content", query_texts |-> <<query>>,
     n_results |-> n_results, where |-> where]

\* VectorStore._resolve_course_name: the title of the nearest catalog match, None
\* when the catalog query matches nothing.  `catalog` is the titles matched.
resolve_course_name(catalog, course_name) ==
    IF Len(catalog) = 0 THEN None ELSE Some(catalog[1])

\* A filter in which a course title hides the lesson number.
build_filter_title_only(course_title, lesson_number) ==
    IF IsNone(course_title) /\ IsNone(lesson_number) THEN None
    ELSE IF ~IsNone(course_title) THEN Some([course_title |-> Val(course_title)])
    ELSE Some([lesson_number |-> Val(lesson_number)])

\* The `where` of the content query: None (unrestricted), one field, or $and.
build_filter(course_title, lesson_number) ==
    IF IsNone(course_title) /\ IsNone(lesson_number) THEN None
    ELSE IF ~IsNone(course_title) /\ ~IsNone(lesson_number)
    THEN Some([and |-> <<[course_title |-> Val(course_title)],
                         [lesson_number |-> Val(lesson_number)]>>])
    ELSE IF ~IsNone(course_title) THEN Some([course_title |-> Val(course_title)])
    ELSE Some([lesson_number |-> Val(lesson_number)])

\* The content query and what search makes of its outcome.
content_search(store, content, query, course_title, lesson_number, limit) ==
    LET n_results == IF IsNone(limit) THEN store.max_results ELSE Val(limit)
        call == ContentQuery(query, n_results, build_filter(course_title, lesson_number))
    IN  [value |-> IF content.raised
                   THEN SearchResults(<<>>, <<>>, Some("Search error: " \o content.value))
                   ELSE SearchResults(content.value.documents, content.value.metadata, None),
         calls |-> <<call>>]

\* A search that goes on to the content query, without the course filter, when
\* the course name matches nothing.
vector_search_falls_through(store, catalog, content, query, course_name, lesson_number, limit) ==
    IF IsNone(course_name)
    THEN content_search(store, content, query, None, lesson_number, limit)
    ELSE LET course_title == resolve_course_name(catalog, Val(course_name))
             found == content_search(store, content, query, course_title,
                                     lesson_number, limit)
         IN  [found EXCEPT !.calls = <<CatalogQuery(Val(course_name))>> \o @]

\* VectorStore.search(query, course_name, lesson_number, limit) over a catalog and
\* a content collection that behave as given: [value, calls].
vector_search(store, catalog, content, query, course_name, lesson_number, limit) ==
    IF IsNone(course_name)
    THEN content_search(store, content, query, None, lesson_number, limit)
    ELSE LET course_title == resolve_course_name(catalog, Val(course_name)) IN
         IF IsNone(course_title)
         THEN [value |-> SearchResults(<<>>, <<>>,
                             Some("No course found matching '" \o Val(course_name) \o "'")),
               calls |-> <<CatalogQuery(Val(course_name))>>]
         ELSE LET found == content_search(store, content, query, course_title,
                                          lesson_number, limit)
              IN  [found EXCEPT !.calls = <<CatalogQuery(Val(course_name))>> \o @]

\* The field values a Config is constructed with.
ConfigFields ==
    [MAX_RESULTS : {0 - 1, 0, 1, 5}, ANTHROPIC_API_KEY : {"", "key"},
     CHUNK_SIZE : {0 - 1, 0, 800}, CHUNK_OVERLAP : {0 - 1, 0, 100, 800}]

\* The result limits a VectorStore is constructed with.
StoreLimits == {0 - 1, 0, 1, 5}

\* What the catalog query of a search may match, and what its content query may do.
CatalogMatches == {<<>>, <<"Full Test Course Name">>}
ContentBehaviours ==
    {Raised("ChromaDB error"),
     Returned([documents |-> <<>>, metadata |-> <<>>]),
     Returned([documents |-> <<"Course content">>,
               metadata |-> <<[course_title |-> Some("Full Test Course Name"),
                               lesson_number |-> Some(1)]>>])}

\* The arguments of a search.
SearchCourseNames == {None, Some("Test")}
SearchLessonNumbers == {None, Some(0), Some(3)}
SearchLimits == {None, Some(10)}

InitStore ==
    /\ tools = <<>>
    /\ last_sources = [inst \in Instances |-> <<>>]
    /\ mgr_ret = NoRet
    /\ last_exec = NoExec
    /\ StoreIdle
    /\ gen_stores = GenStores
    /\ QueriesIdle
    /\ pc = "idle"
    /\ in_tools = <<>>
    /\ in_manager = FALSE
    /\ in_history = None
    /\ calls = <<>>
    /\ responses = <<>>
    /\ stop1 = None
    /\ messages = <<>>
    /\ current_response = <<>>
    /\ current_round = 0
    /\ tool_results = <<>>
    /\ idx = 0
    /\ exec_log = <<>>
    /\ result = NoResult

\* config = Config(**fields): a construction that raises binds nothing.
NewConfig(fields) ==
    /\ \E r \in {NewConfigOutcome(fields)} :
       /\ store_ret' = [op |-> "Config", raised |-> r.raised, value |-> r.value,
                        args |-> fields]
       /\ config' = IF r.raised THEN config ELSE Some(r.value)
    /\ UNCHANGED <<vector_store, mgr_vars, gen_vars, query_vars, gen_stores>>

\* vector_store = VectorStore(..., max_results)
NewVectorStore(max_results) ==
    /\ \E r \in {NewVectorStoreOutcome(max_results)} :
       /\ store_ret' = [op |-> "VectorStore", raised |-> r.raised, value |-> r.value,
                        args |-> [max_results |-> max_results]]
       /\ vector_store' = IF r.raised THEN vector_store ELSE Some(r.value)
    /\ UNCHANGED <<config, mgr_vars, gen_vars, query_vars, gen_stores>>

\* vector_store.search(query, course_name, lesson_number, limit): only a
\* constructed VectorStore can be searched.
VectorStoreSearch(course_name, lesson_number, limit, catalog, content) ==
    /\ ~IsNone(vector_store)
    /\ \E r \in {vector_search(Val(vector_store), catalog, content, Query,
                               course_name, lesson_number, limit)} :
       store_ret' = [op |-> "search", raised |-> FALSE, value |-> r.value,
                     calls |-> r.calls,
                     args |-> [course_name |-> course_name,
                               lesson_number |-> lesson_number, limit |-> limit],
                     catalog |-> catalog, store |-> Val(vector_store)]
    /\ UNCHANGED <<config, vector_store, mgr_vars, gen_vars, query_vars, gen_stores>>

NextStore ==
    \/ \E fields \in ConfigFields : NewConfig(fields)
    \/ \E max_results \in StoreLimits : NewVectorStore(max_results)
    \/ \E course_name \in SearchCourseNames, lesson_number \in SearchLessonNumbers,
          limit \in SearchLimits, catalog \in CatalogMatches,
          content \in ContentBehaviours :
         VectorStoreSearch(course_name, lesson_number, limit, catalog, content)

SpecStore == InitStore /\ [][NextStore]_vars

\* ---------------------------------------------------------------- queries on shared tools

(***************************************************************************)
(* SpecQueries: two queries served over one ToolManager and its tool        *)
(* objects.  A query runs the tool executions of its generate_response,     *)
(* then reads get_last_sources() for its answer, then calls                 *)
(* reset_sources().  The server lets max_in_flight queries run at the same  *)
(* time: 1 is the single-threaded scheduling the design assumes, 2 is two   *)
(* requests served by concurrent threads, which interleave between any two  *)
(* calls on the ToolManager.  The query procedure itself (RAGSystem.query)  *)
(* is not part of the sources at hand; its three steps are taken from the   *)
(* specification's section 5 and the tests of tests/test_rag_system.py.     *)
(***************************************************************************)

\* The most tool executions one query makes.
MaxExecs == 2

\* The store as query q meets it: the question of q finds a document of its own
\* course, or nothing.
QueryCourse(q) == IF q = 1 THEN "A" ELSE "B"
QueryStores(q) ==
    {[search |-> Returned(SearchResults(
                     <<"doc " \o QueryCourse(q)>>,
                     <<[course_title |-> Some(QueryCourse(q)), lesson_number |-> Some(q)]>>,
                     None)),
      links |-> FALSE,
      resolve |-> Returned(Some(QueryCourse(q))),
      get |-> Returned(<<[title |-> Some(QueryCourse(q)), instructor |-> None,
                          course_link |-> None, lessons_json |-> None,
                          lesson_count |-> Some(0)]>>)],
     [search |-> Returned(SearchResults(<<>>, <<>>, None)),
      links |-> FALSE,
      resolve |-> Returned(None),
      get |-> Returned(<<>>)]}

\* The queries being served.
InFlight == {q \in Queries : queries[q].pc \in {"running", "read"}}

\* The query that wrote the list get_last_sources returns (optional).
RECURSIVE FirstWriter(_, _, _, _)
FirstWriter(reg, srcs, wr, i) ==
    IF i > Len(reg) THEN None
    ELSE IF Len(srcs[reg[i].inst]) > 0 THEN wr[reg[i].inst]
    ELSE FirstWriter(reg, srcs, wr, i + 1)

\* Nobody is the writer of a list that is empty.
WriterAfter(srcs, wr) ==
    [inst \in DOMAIN wr |-> IF srcs[inst] = <<>> THEN None ELSE wr[inst]]

InitQueries ==
    /\ tools = GenRegistry
    /\ last_sources = [inst \in Instances |-> <<>>]
    /\ mgr_ret = NoRet
    /\ last_exec = NoExec
    /\ StoreIdle
    /\ gen_stores = GenStores
    /\ max_in_flight \in {1, 2}
    /\ queries = [q \in Queries |-> NewQuery]
    /\ writer = [inst \in Instances |-> None]
    /\ pc = "idle"
    /\ in_tools = <<>>
    /\ in_manager = FALSE
    /\ in_history = None
    /\ calls = <<>>
    /\ responses = <<>>
    /\ stop1 = None
    /\ messages = <<>>
    /\ current_response = <<>>
    /\ current_round = 0
    /\ tool_results = <<>>
    /\ idx = 0
    /\ exec_log = <<>>
    /\ result = NoResult

\* The server takes up query q.
StartQuery(q) ==
    /\ queries[q].pc = "idle"
    /\ Cardinality(InFlight) < max_in_flight
    /\ queries' = [queries EXCEPT ![q].pc = "running"]
    /\ UNCHANGED <<mgr_vars, store_vars, max_in_flight, writer, gen_vars, gen_stores>>

\* One tool_manager.execute_tool(name, **input) of query q's generate_response.
QueryExecute(q, call, store) ==
    /\ queries[q].pc = "running"
    /\ queries[q].execs < MaxExecs
    /\ \E r \in {execute_tool(tools, last_sources, store, call.name, call.input)},
          alone \in {execute_tool(tools, queries[q].own, store, call.name, call.input)} :
       /\ last_sources' = r.srcs
       /\ queries' = [queries EXCEPT ![q].execs = @ + 1, ![q].own = alone.srcs]
       /\ writer' = IF /\ ~IsNone(r.ran)
                       /\ Produces(Kind(Val(r.ran)), call.input, store)
                    THEN [writer EXCEPT ![Val(r.ran)] = Some(q)]
                    ELSE writer
    /\ UNCHANGED <<tools, mgr_ret, last_exec, store_vars, max_in_flight, gen_vars, gen_stores>>

\* generate_response has returned: sources = tool_manager.get_last_sources()
QueryRead(q) ==
    /\ queries[q].pc = "running"
    /\ queries' = [queries EXCEPT
                     ![q].pc = "read",
                     ![q].read = Some(get_last_sources(tools, last_sources)),
                     ![q].read_from = FirstWriter(tools, last_sources, writer, 1)]
    /\ UNCHANGED <<mgr_vars, store_vars, max_in_flight, writer, gen_vars, gen_stores>>

\* tool_manager.reset_sources(), the last step of query q.
QueryReset(q) ==
    /\ queries[q].pc = "read"
    /\ \E cleared \in {reset_sources(tools, last_sources)} :
       /\ last_sources' = cleared
       /\ writer' = WriterAfter(cleared, writer)
    /\ queries' = [queries EXCEPT ![q].pc = "done"]
    /\ UNCHANGED <<tools, mgr_ret, last_exec, store_vars, max_in_flight, gen_vars, gen_stores>>

NextQueries ==
    \/ \E q \in Queries : StartQuery(q)
    \/ \E q \in Queries, call \in GenToolCalls :
         \E store \in QueryStores(q) : QueryExecute(q, call, store)
    \/ \E q \in Queries : QueryRead(q)
    \/ \E q \in Queries : QueryReset(q)

SpecQueries == InitQueries /\ [][NextQueries]_vars

\* ---------------------------------------------------------------- queries whose tools fail

\* A store whose search reports an error of the provider and that knows no course.
ErrorStore ==
    [search |-> Returned(SearchResults(<<>>, <<>>, Some("Database connection failed"))),
     links |-> FALSE,
     resolve |-> Returned(None),
     get |-> Returned(<<>>)]

\* A store whose search finds nothing and that knows no course.
EmptyStore ==
    [search |-> Returned(SearchResults(<<>>, <<>>, None)),
     links |-> FALSE,
     resolve |-> Returned(None),
     get |-> Returned(<<>>)]

\* The stores of a query whose tool executions fail, with a text or by raising;
\* the store of one query behaves in one way for the whole query.
FailStores == {ErrorStore, EmptyStore, DownStore}

\* The registries of such a query: both tools, or the search tool alone, so that
\* a request for the outline tool names a tool that is not registered.
FailRegistries == {GenRegistry, <<[name |-> SEARCH_NAME, inst |-> "search1"]>>}

\* generate_response called with the definitions of the registry, its tool
\* manager and no history, over a store that fails.
InitFail ==
    /\ tools \in FailRegistries
    /\ last_sources = [inst \in Instances |-> <<>>]
    /\ mgr_ret = NoRet
    /\ last_exec = NoExec
    /\ StoreIdle
    /\ gen_stores \in {{s} : s \in FailStores}
    /\ QueriesIdle
    /\ pc = "start"
    /\ in_tools = get_tool_definitions(tools)
    /\ in_manager = TRUE
    /\ in_history = None
    /\ calls = <<>>
    /\ responses = <<>>
    /\ stop1 = None
    /\ messages = <<>>
    /\ current_response = <<>>
    /\ current_round = 0
    /\ tool_results = <<>>
    /\ idx = 0
    /\ exec_log = <<>>
    /\ result = NoResult

SpecFail == InitFail /\ [][Next]_vars

\* ---------------------------------------------------------------- properties

\* The tool_use blocks of a content, in the order of the content.
IsToolUse(block) == block.type = "tool_use"
ToolUseBlocks(content) == SelectSeq(content, IsToolUse)
RequestsTools(content) == Len(ToolUseBlocks(content)) > 0

\* The executions of the round that handled the k-th response, in the order made.
ExecsOfRound(k) == SelectSeq(exec_log, LAMBDA e : e.round = k)

IsPrefix(s, t) == Len(s) <= Len(t) /\ \A i \in 1..Len(s) : s[i] = t[i]

NoToolFault == \A i \in 1..Len(exec_log) : ~exec_log[i].raised

\* C1: a query issues at most 3 model-provider calls, and exactly 3 once the first
\* and the second response both requested tools and no tool execution faulted.
C1_AtMostThreeCalls ==
    /\ Len(calls) <= 3
    /\ (/\ Len(responses) >= 2
        /\ RequestsTools(responses[1])
        /\ RequestsTools(responses[2])
        /\ NoToolFault
        /\ pc = "done")
       => Len(calls) = 3

C1_Witness ==
    /\ pc = "done"
    /\ Len(calls) = 3
    /\ Len(responses) = 3
    /\ RequestsTools(responses[1])
    /\ RequestsTools(responses[2])
    /\ NoToolFault

\* C2: with a non-empty tool list and a tool manager, the first call carries the
\* tool definitions with tool choice auto, so does the second call when there is
\* one, and the third call carries neither tools nor a tool choice.
C2_ToolsOnCalls ==
    (Len(in_tools) > 0 /\ in_manager) =>
        /\ Len(calls) >= 1 =>
             calls[1].tools = Some(in_tools) /\ calls[1].tool_choice = Some("auto")
        /\ Len(calls) >= 2 =>
             calls[2].tools = Some(in_tools) /\ calls[2].tool_choice = Some("auto")
        /\ Len(calls) >= 3 =>
             calls[3].tools = None /\ calls[3].tool_choice = None

C2_Witness ==
    /\ Len(in_tools) > 0
    /\ in_manager
    /\ Len(calls) = 3
    /\ RequestsTools(responses[1])
    /\ RequestsTools(responses[2])

\* C3: in every tool round the tool_use blocks of the response are executed one
\* after the other in the order of the response, all of them before the next
\* model call; a round that no execution faulted adds exactly one user message,
\* holding one tool result per tool_use block in that order, the i-th result with
\* the id of the i-th block.
C3_ResultsMatchRequests ==
    \A k \in 1..current_round :
        LET reqs == ToolUseBlocks(responses[k])
            execs == ExecsOfRound(k)
        IN  /\ Len(execs) <= Len(reqs)
            /\ \A i \in 1..Len(execs) :
                 /\ execs[i].id = reqs[i].id
                 /\ execs[i].name = reqs[i].name
                 /\ execs[i].calls = k
                 /\ execs[i].raised => i = Len(execs)
            /\ Len(calls) > k =>
                 /\ Len(execs) = Len(reqs)
                 /\ Len(calls[k + 1].messages) = Len(calls[k].messages) + 2
                 /\ LET m == calls[k + 1].messages[Len(calls[k].messages) + 2] IN
                      /\ m.role = "user"
                      /\ Len(m.content) = Len(reqs)
                      /\ \A i \in 1..Len(reqs) :
                           /\ m.content[i].type = "tool_result"
                           /\ m.content[i].tool_use_id = reqs[i].id

C3_Witness ==
    /\ Len(calls) >= 2
    /\ Len(ToolUseBlocks(responses[1])) = 2
    /\ Len(ExecsOfRound(1)) = 2
    /\ Len(calls[2].messages[3].content) = 2
    /\ calls[2].messages[3].content[1].tool_use_id /= calls[2].messages[3].content[2].tool_use_id

\* C4: once a tool execution has raised, generate_response has returned a text
\* with "Tool execution failed", no model call was made after the fault and no
\* later tool_use block of the response was executed.
C4_ToolFaultAborts ==
    \A i \in 1..Len(exec_log) :
        exec_log[i].raised =>
            /\ i = Len(exec_log)
            /\ pc = "done"
            /\ result.kind = "answer"
            /\ result.value \in {"Tool execution failed: " \o m : m \in {"store down", "TypeError"}}
            /\ Len(calls) = exec_log[i].calls
            /\ Len(responses) = Len(calls)

C4_Witness ==
    /\ Len(exec_log) = 1
    /\ exec_log[1].raised
    /\ Len(ToolUseBlocks(responses[1])) = 2
    /\ responses[1][1].type = "tool_use"
    /\ pc = "done"

\* C5: when the first response holds no tool_use block, exactly one model call is
\* made, no tool is executed and the answer is the text of that response (the
\* text of its first block).
C5_DirectAnswer ==
    (Len(responses) >= 1 /\ ~RequestsTools(responses[1])) =>
        /\ Len(calls) = 1
        /\ exec_log = <<>>
        /\ pc = "done" => result = [kind |-> "answer", value |-> responses[1][1].text]

C5_Witness ==
    /\ pc = "done"
    /\ Len(responses) = 1
    /\ ~RequestsTools(responses[1])
    /\ Len(responses[1]) = 2
    /\ stop1 = Some("tool_use")
    /\ in_manager
    /\ result.kind = "answer"

\* C6: when the first response requested tools and the second response holds no
\* tool_use block, exactly 2 model calls are made, only the tool_use blocks of
\* the first response are executed and the answer is the text of the second
\* response.
C6_SecondResponseFinal ==
    (Len(responses) >= 2 /\ ~RequestsTools(responses[2])) =>
        /\ Len(calls) = 2
        /\ Len(exec_log) = Len(ToolUseBlocks(responses[1]))
        /\ \A i \in 1..Len(exec_log) :
             exec_log[i].id = ToolUseBlocks(responses[1])[i].id
        /\ pc = "done" => result = [kind |-> "answer", value |-> responses[2][1].text]

C6_Witness ==
    /\ pc = "done"
    /\ Len(responses) = 2
    /\ ~RequestsTools(responses[2])
    /\ Len(exec_log) = 2
    /\ result.kind = "answer"

\* C7: the k-th model call receives exactly 2k-1 messages, the first of them the
\* user query, and the messages of a call are a prefix of those of the next call.
C7_TranscriptResent ==
    \A k \in 1..Len(calls) :
        /\ Len(calls[k].messages) = 2 * k - 1
        /\ calls[k].messages[1] = [role |-> "user", content |-> Query]
        /\ k < Len(calls) => IsPrefix(calls[k].messages, calls[k + 1].messages)

C7_Witness ==
    /\ Len(calls) = 3
    /\ Len(calls[3].messages) = 5

\* C8: a fault of a model-provider call, the first or a later one, is the outcome
\* of generate_response as it was raised: it is not turned into an answer and no
\* further call is made.
C8_ProviderFaultPropagates ==
    (pc = "done" /\ Len(calls) > Len(responses)) =>
        /\ result.kind = "provider_fault"
        /\ result.value \in ProviderErrors
        /\ Len(calls) = Len(responses) + 1

C8_Witness ==
    /\ pc = "done"
    /\ Len(calls) = 2
    /\ Len(responses) = 1
    /\ result.kind = "provider_fault"

\* C9: execute_tool with a name that is not registered returns "Tool '<name>' not
\* found", raises nothing, runs no tool and leaves every last_sources as it was.
C9_UnknownToolNotFound ==
    (mgr_ret.op = "execute_tool" /\ ~Registered(tools, mgr_ret.name)) =>
        /\ ~mgr_ret.raised
        /\ mgr_ret.value = "Tool '" \o mgr_ret.name \o "' not found"
        /\ mgr_ret.ran = None
        /\ last_sources = mgr_ret.before

C9_Witness ==
    /\ mgr_ret.op = "execute_tool"
    /\ mgr_ret.name = "nonexistent_tool"
    /\ mgr_ret.value = "Tool 'nonexistent_tool' not found"
    /\ Len(tools) = 2
    /\ \E inst \in Instances : Len(last_sources[inst]) > 0

\* The positions of the registry whose tool holds citations.
HoldingPositions == {i \in 1..Len(tools) : Len(last_sources[tools[i].inst]) > 0}

C11_MostRecentWins ==
    (/\ mgr_ret.op = "get_last_sources"
     /\ Cardinality(HoldingPositions) >= 2
     /\ ~IsNone(last_exec.storer))
        => mgr_ret.value = last_sources[Val(last_exec.storer)]

\* The registered tool objects, and whether none of them holds citations in srcs.
RegisteredInstances == {tools[i].inst : i \in 1..Len(tools)}
AllCleared(srcs) == \A inst \in RegisteredInstances : srcs[inst] = <<>>

\* The class of the tool object the last execute_tool call ran, and whether that
\* execution was one that produces citations.
RanKind == Kind(Val(mgr_ret.ran))
RanProduces ==
    /\ mgr_ret.op = "execute_tool"
    /\ ~IsNone(mgr_ret.ran)
    /\ Produces(RanKind, last_exec.input, last_exec.store)

\* C12: after reset_sources every registered tool's last_sources is empty and
\* get_last_sources returns the empty list, whatever was executed before; an
\* execution that produces citations, made when all are cleared, makes
\* get_last_sources return the citations that execution stored.
C12_ResetThenRepopulate ==
    /\ mgr_ret.op = "reset_sources"
          => /\ AllCleared(last_sources)
             /\ get_last_sources(tools, last_sources) = <<>>
    /\ (RanProduces /\ AllCleared(mgr_ret.before))
          => /\ last_sources[Val(mgr_ret.ran)] /= <<>>
             /\ get_last_sources(tools, last_sources) = last_sources[Val(mgr_ret.ran)]

C12_Witness ==
    /\ mgr_ret.op = "reset_sources"
    /\ \A inst \in RegisteredInstances : mgr_ret.before[inst] /= <<>>
    /\ Len(tools) = 2
    /\ AllCleared(last_sources)

\* C13: register_tool raises for a tool whose definition has no name or the empty
\* name, and then self.tools is exactly what it was before the call.
C13_NamelessToolRejected ==
    (/\ mgr_ret.op = "register_tool"
     /\ ~TruthyStr(DefName(mgr_ret.tool)))
        => /\ mgr_ret.raised
           /\ mgr_ret.value = "Tool must have a 'name' in its definition"
           /\ tools = mgr_ret.registry

C13_Witness ==
    /\ mgr_ret.op = "register_tool"
    /\ mgr_ret.tool = "emptyname1"
    /\ mgr_ret.raised
    /\ Len(tools) = 2

\* The last execute_tool call ran a tool object of the given class.
RanTool(kind) ==
    /\ mgr_ret.op = "execute_tool"
    /\ ~IsNone(mgr_ret.ran)
    /\ RanKind = kind

\* The last execute_tool call ran a CourseSearchTool whose arguments bound and
\* whose store.search returned results (raised nothing).
SearchReturned ==
    /\ RanTool("CourseSearchTool")
    /\ SearchArgsBind(last_exec.input)
    /\ ~last_exec.store.search.raised
SearchResultsSeen == last_exec.store.search.value

\* The statement of C14: on an empty result set without error the search tool
\* returns "No relevant content found", then " in course '<name>'" if a course
\* name was given, then " in lesson <n>" if a lesson number was given, and
\* nothing more.
C14_EmptyResultMessage ==
    (/\ SearchReturned
     /\ IsNone(SearchResultsSeen.error)
     /\ Len(SearchResultsSeen.documents) = 0)
        => /\ ~mgr_ret.raised
           /\ mgr_ret.value =
                "No relevant content found"
                \o (IF "course_name" \in DOMAIN last_exec.input
                    THEN " in course '" \o last_exec.input.course_name \o "'" ELSE "")
                \o (IF "lesson_number" \in DOMAIN last_exec.input
                    THEN " in lesson " \o ToString(last_exec.input.lesson_number) ELSE "")

\* C15: when the results of store.search carry an error, the search tool returns
\* that error string as it is, whether or not the result set is empty, and calls
\* the store for nothing but the search (no lesson link is looked up).
C15_ErrorReturnedVerbatim ==
    (/\ SearchReturned
     /\ ~IsNone(SearchResultsSeen.error))
        => /\ ~mgr_ret.raised
           /\ mgr_ret.value = Val(SearchResultsSeen.error)
           /\ last_exec.store_calls = <<StoreSearch>>

C15_Witness ==
    /\ SearchReturned
    /\ ~IsNone(SearchResultsSeen.error)
    /\ Len(SearchResultsSeen.documents) = 0
    /\ "course_name" \in DOMAIN last_exec.input
    /\ mgr_ret.value = "No course found matching 'X'"

\* What C16 expects of one (document, metadata) pair: the citation text, the
\* block and the citation over the store the execution met.
ExpectedText(meta) ==
    IF IsNone(meta.lesson_number) THEN Val(meta.course_title)
    ELSE Val(meta.course_title) \o " - Lesson " \o ToString(Val(meta.lesson_number))
ExpectedBlock(doc, meta) == "[" \o ExpectedText(meta) \o "]" \o "\n" \o doc
ExpectedCitation(store, meta) ==
    [text |-> ExpectedText(meta),
     link |-> IF IsNone(meta.lesson_number) THEN None
              ELSE get_lesson_link(store, Val(meta.course_title), Val(meta.lesson_number))]
ExpectedCitations(store, results) ==
    [i \in 1..Len(results.documents) |-> ExpectedCitation(store, results.metadata[i])]

\* The last search found documents: results without error, not empty.
SearchFound ==
    /\ SearchReturned
    /\ IsNone(SearchResultsSeen.error)
    /\ Len(SearchResultsSeen.documents) > 0

\* C16: for k (document, metadata) pairs the search tool returns k blocks in
\* result order, joined by a blank line, each headed [<title> - Lesson <n>] when
\* the metadata has a lesson number (0 included) and [<title>] otherwise; it
\* stores k citations in the same order with the matching texts; it looks a link
\* up, once, for exactly the pairs with a lesson number, and the link of the
\* others is None.
C16_ResultsFormatted ==
    SearchFound =>
        LET results == SearchResultsSeen
            k == Len(results.documents)
            stored == last_sources[Val(mgr_ret.ran)]
            with_lesson == {i \in 1..k : ~IsNone(results.metadata[i].lesson_number)}
        IN  /\ ~mgr_ret.raised
            /\ mgr_ret.value =
                 Join([i \in 1..k |-> ExpectedBlock(results.documents[i],
                                                    results.metadata[i])], "\n\n")
            /\ stored = ExpectedCitations(last_exec.store, results)
            /\ Len(last_exec.store_calls) = 1 + Cardinality(with_lesson)
            /\ last_exec.store_calls[1] = StoreSearch
            /\ \A i \in with_lesson :
                 \E j \in 2..Len(last_exec.store_calls) :
                    /\ last_exec.store_calls[j].method = "get_lesson_link"
                    /\ last_exec.store_calls[j].course_title
                         = Val(results.metadata[i].course_title)
                    /\ last_exec.store_calls[j].lesson_num
                         = Val(results.metadata[i].lesson_number)
            /\ \A i \in (1..k) \ with_lesson : stored[i].link = None

C16_Witness ==
    /\ SearchFound
    /\ Len(SearchResultsSeen.documents) = 2
    /\ last_exec.store.links
    /\ mgr_ret.value = "[C - Lesson 0]\ndoc a\n\n[D]\ndoc b"
    /\ last_sources[Val(mgr_ret.ran)]
         = <<[text |-> "C - Lesson 0", link |-> Some("https://example.com/C/0")],
             [text |-> "D", link |-> None]>>

\* C17: a search that finds documents, run on a tool that still holds the
\* citations of an earlier search, leaves as stored citations exactly those of
\* its own results: as many as the results, none of the earlier ones kept.
C17_SearchOverwrites ==
    (/\ SearchFound
     /\ mgr_ret.before[Val(mgr_ret.ran)] /= <<>>)
        => /\ Len(last_sources[Val(mgr_ret.ran)]) = Len(SearchResultsSeen.documents)
           /\ last_sources[Val(mgr_ret.ran)]
                = ExpectedCitations(last_exec.store, SearchResultsSeen)

C17_Witness ==
    /\ SearchFound
    /\ Len(mgr_ret.before[Val(mgr_ret.ran)]) = 2
    /\ mgr_ret.before[Val(mgr_ret.ran)][2].text = "D"
    /\ last_sources[Val(mgr_ret.ran)] = <<[text |-> "C - Lesson 2", link |-> None]>>

\* The statement of C18: after any execution of a search or outline tool that
\* returns, the tool's stored citations are those of that execution: some when
\* it produced citations, none when it ended in a provider error, an empty
\* result set, an unresolved course or missing metadata.
C18_CitationsOfThisExecution ==
    (/\ mgr_ret.op = "execute_tool"
     /\ ~IsNone(mgr_ret.ran)
     /\ ~mgr_ret.raised)
        => IF RanProduces
           THEN last_sources[Val(mgr_ret.ran)] /= <<>>
           ELSE last_sources[Val(mgr_ret.ran)] = <<>>

\* The last execute_tool call ran a CourseOutlineTool whose arguments bound and
\* whose store._resolve_course_name returned (raised nothing).
OutlineResolveReturned ==
    /\ RanTool("CourseOutlineTool")
    /\ OutlineArgsBind(last_exec.input)
    /\ ~last_exec.store.resolve.raised

\* C19: when the course name does not resolve, the outline tool returns
\* "No course found matching '<name>'" with the name the caller gave, raises
\* nothing and calls the store for the resolution only (the catalog is not read).
C19_UnresolvedCourse ==
    (/\ OutlineResolveReturned
     /\ IsNone(last_exec.store.resolve.value))
        => /\ ~mgr_ret.raised
           /\ mgr_ret.value
                = "No course found matching '" \o last_exec.input.course_name \o "'"
           /\ last_exec.store_calls = <<StoreResolve>>

C19_Witness ==
    /\ OutlineResolveReturned
    /\ IsNone(last_exec.store.resolve.value)
    /\ last_exec.store.get.raised
    /\ mgr_ret.value = "No course found matching 'X'"

\* C20: after an outline execution that resolves the course and reads and
\* formats its catalog entry, the tool's stored citations are exactly one entry:
\* its text is the resolved course title, its link the course link stored in
\* the catalog, None when none is stored; nothing of an earlier execution stays.
C20_OutlineCitation ==
    (RanTool("CourseOutlineTool") /\ RanProduces)
        => LET entry == last_exec.store.get.value[1] IN
           last_sources[Val(mgr_ret.ran)]
             = <<[text |-> Val(last_exec.store.resolve.value),
                  link |-> IF IsNone(entry.course_link) THEN None
                           ELSE entry.course_link]>>

C20_Witness ==
    /\ RanTool("CourseOutlineTool")
    /\ RanProduces
    /\ mgr_ret.before[Val(mgr_ret.ran)] = <<[text |-> "D", link |-> None]>>
    /\ last_sources[Val(mgr_ret.ran)]
         = <<[text |-> "C", link |-> Some("https://example.com/C")]>>

\* The last execute_tool call ran a CourseOutlineTool whose course name resolved
\* to a title.
OutlineResolved ==
    /\ OutlineResolveReturned
    /\ TruthyStr(last_exec.store.resolve.value)

\* C21: a fault raised by the catalog read of a resolved course is caught in the
\* tool: execute raises nothing and returns "Error retrieving course outline: "
\* followed by the message of the fault.
C21_CatalogFaultCaught ==
    (OutlineResolved /\ last_exec.store.get.raised)
        => /\ ~mgr_ret.raised
           /\ mgr_ret.value
                = "Error retrieving course outline: " \o last_exec.store.get.value

C21_Witness ==
    /\ OutlineResolved
    /\ last_exec.store.get.raised
    /\ last_exec.store_calls = <<StoreResolve, StoreCatalogGet>>
    /\ mgr_ret.value = "Error retrieving course outline: store down"

\* The last execute_tool call ran a CourseOutlineTool that read the catalog entry
\* of the resolved course.
OutlineEntryRead ==
    /\ OutlineResolved
    /\ ~last_exec.store.get.raised
    /\ Len(last_exec.store.get.value) > 0
OutlineEntrySeen == last_exec.store.get.value[1]

\* What C22 expects of an outline: the header lines of the entry, and after them
\* the lesson entries, the parse-error line or the no-lesson-information line.
ExpectedOutlineHeader(entry) ==
    <<"**Course:** " \o Val(entry.title)>>
    \o (IF IsNone(entry.instructor) THEN <<>>
        ELSE <<"**Instructor:** " \o Val(entry.instructor)>>)
    \o (IF IsNone(entry.course_link) THEN <<>>
        ELSE <<"**Course Link:** " \o Val(entry.course_link)>>)
    \o <<"", "**Course Outline** ("
               \o ToString(IF IsNone(entry.lesson_count) THEN 0
                           ELSE Val(entry.lesson_count))
               \o " lessons):", "">>

RECURSIVE ExpectedLessonEntries(_)
ExpectedLessonEntries(lessons) ==
    IF Len(lessons) = 0 THEN <<>>
    ELSE LET lesson == Head(lessons) IN
         <<"**Lesson " \o ToString(Val(lesson.lesson_number)) \o ":** "
             \o Val(lesson.lesson_title)>>
         \o (IF IsNone(lesson.lesson_link) THEN <<>>
             ELSE <<"↳ " \o Val(lesson.lesson_link)>>)
         \o <<"">>
         \o ExpectedLessonEntries(Tail(lessons))

ExpectedOutlineEnd(lessons_json) ==
    IF IsNone(lessons_json) \/ Val(lessons_json).kind = "empty"
    THEN <<"No lesson information available">>
    ELSE IF Val(lessons_json).kind = "list"
    THEN ExpectedLessonEntries(Val(lessons_json).lessons)
    ELSE <<"Error: Unable to parse lesson information">>

\* The statement of C22: the outline of a catalog entry is its header followed by
\* the parse-error line when the stored lesson list is malformed or unparseable
\* in any way, by the no-lesson-information line when no lesson data is stored,
\* and otherwise by one entry per stored lesson in stored order, with a link line
\* exactly for the lessons that have a link.
C22_OutlineRendering ==
    OutlineEntryRead
        => /\ ~mgr_ret.raised
           /\ mgr_ret.value
                = Join(ExpectedOutlineHeader(OutlineEntrySeen)
                         \o ExpectedOutlineEnd(OutlineEntrySeen.lessons_json), "\n")

\* The last call was a search on a VectorStore, with a course name supplied.
StoreSearched == store_ret.op = "search"
CourseNameSupplied == StoreSearched /\ ~IsNone(store_ret.args.course_name)

\* The calls the last search made on the content collection.
ContentCalls == SelectSeq(store_ret.calls, LAMBDA c : c.collection = "course_content")
CatalogCalls == SelectSeq(store_ret.calls, LAMBDA c : c.collection = "course_catalog")

\* C23: a search with a course name that matches no catalog entry returns results
\* with the error "No course found matching '<name>'" and no document, and makes
\* no query on the content collection.
C23_UnresolvedShortCircuits ==
    (CourseNameSupplied /\ Len(store_ret.catalog) = 0)
        => /\ store_ret.value.error
                = Some("No course found matching '"
                          \o Val(store_ret.args.course_name) \o "'")
           /\ Len(store_ret.value.documents) = 0
           /\ Len(ContentCalls) = 0

C23_Witness ==
    /\ CourseNameSupplied
    /\ Len(store_ret.catalog) = 0
    /\ ~IsNone(store_ret.args.lesson_number)
    /\ store_ret.calls = <<CatalogQuery("Test")>>
    /\ store_ret.value.error = Some("No course found matching 'Test'")

\* The filter C24 expects of a search whose course name, if any, resolved.
ExpectedWhere ==
    LET course_name == store_ret.args.course_name
        lesson_number == store_ret.args.lesson_number
        title == store_ret.catalog[1]
    IN  IF IsNone(course_name) /\ IsNone(lesson_number) THEN None
        ELSE IF IsNone(lesson_number) THEN Some([course_title |-> title])
        ELSE IF IsNone(course_name) THEN Some([lesson_number |-> Val(lesson_number)])
        ELSE Some([and |-> <<[course_title |-> title],
                             [lesson_number |-> Val(lesson_number)]>>])

\* C24: a search without a course name makes no catalog query; one with a course
\* name makes exactly one, before anything else.  Unless the name failed to
\* resolve, the search makes exactly one content query, the last call, whose
\* filter is: none when no filter is supplied; the resolved title for a course
\* name alone; the lesson number for a lesson number alone; the AND of resolved
\* title and lesson number for both.
C24_FilterConstruction ==
    StoreSearched =>
        /\ Len(CatalogCalls) = (IF CourseNameSupplied THEN 1 ELSE 0)
        /\ CourseNameSupplied
              => store_ret.calls[1] = CatalogQuery(Val(store_ret.args.course_name))
        /\ (~CourseNameSupplied \/ Len(store_ret.catalog) > 0)
              => /\ Len(ContentCalls) = 1
                 /\ store_ret.calls[Len(store_ret.calls)].collection = "course_content"
                 /\ ContentCalls[1].where = ExpectedWhere

C24_Witness ==
    /\ CourseNameSupplied
    /\ store_ret.args.lesson_number = Some(0)
    /\ Len(store_ret.calls) = 2
    /\ store_ret.calls[2].where
         = Some([and |-> <<[course_title |-> "Full Test Course Name"],
                           [lesson_number |-> 0]>>])

\* C25: a Config with MAX_RESULTS <= 0 and a VectorStore with max_results <= 0
\* are rejected by the constructor with an error: no such object ever exists, and
\* every search runs on a VectorStore whose max_results is positive.
C25_NonPositiveLimitRejected ==
    /\ ~IsNone(config) => Val(config).MAX_RESULTS > 0
    /\ ~IsNone(vector_store) => Val(vector_store).max_results > 0
    /\ (store_ret.op = "Config" /\ store_ret.args.MAX_RESULTS <= 0)
          => /\ store_ret.raised
             /\ store_ret.value
                  = "Configuration Error: MAX_RESULTS must be positive, got "
                      \o ToString(store_ret.args.MAX_RESULTS) \o ". "
                      \o "Setting MAX_RESULTS to 0 will cause all searches to return empty results."
    /\ (store_ret.op = "VectorStore" /\ store_ret.args.max_results <= 0)
          => store_ret.raised
    /\ StoreSearched => store_ret.store.max_results > 0

C25_Witness ==
    /\ store_ret.op = "Config"
    /\ store_ret.args.MAX_RESULTS = 0
    /\ store_ret.args.ANTHROPIC_API_KEY = "key"
    /\ store_ret.raised
    /\ IsNone(config)
    /\ IsNone(vector_store)

\* The queries that have read their citations, and what a query would have read
\* had it run alone.
HasRead(q) == queries[q].pc \in {"read", "done"}
ReadAlone(q) == get_last_sources(tools, queries[q].own)

\* The citations query q read were written by another query's execution.
ReadForeign(q) ==
    /\ HasRead(q)
    /\ ~IsNone(queries[q].read_from)
    /\ Val(queries[q].read_from) /= q
\* The citations of query q's own executions were gone when it read.
ReadWiped(q) ==
    /\ HasRead(q)
    /\ ReadAlone(q) /= <<>>
    /\ Val(queries[q].read) = <<>>

C27_SystemBlock ==
    \A i \in 1..Len(calls) :
        calls[i].system =
            IF ~IsNone(in_history) /\ Val(in_history) /= ""
            THEN SYSTEM_PROMPT \o "\n\nPrevious conversation:\n" \o Val(in_history)
            ELSE SYSTEM_PROMPT

C27_Witness ==
    /\ Len(calls) = 3
    /\ in_history = Some("User: hi\nAssistant: hello")
    /\ calls[3].system
         = SYSTEM_PROMPT \o "\n\nPrevious conversation:\nUser: hi\nAssistant: hello"
    /\ calls[3].system = calls[1].system

\* The k-th response was handled to the end: the call that ends its round was
\* made, or generate_response has returned.
Handled(k) == Len(calls) > k \/ (pc = "done" /\ Len(responses) >= k)

\* The round of the k-th response ran: every tool_use block of the response was
\* executed, up to a fault, and the user message that follows holds one tool
\* result per tool_use block and none for a text block.
TreatedAsToolRequest(k) ==
    LET reqs == ToolUseBlocks(responses[k])
        execs == ExecsOfRound(k)
    IN  /\ Len(execs) >= 1
        /\ \/ Len(execs) = Len(reqs)
           \/ execs[Len(execs)].raised
        /\ \A i \in 1..Len(execs) : execs[i].id = reqs[i].id
        /\ Len(calls) > k =>
             LET m == calls[k + 1].messages[Len(calls[k + 1].messages)] IN
               /\ m.role = "user"
               /\ Len(m.content) = Len(reqs)
               /\ \A i \in 1..Len(reqs) : m.content[i].tool_use_id = reqs[i].id

\* C28: a response to a call that offered tools, the first or the second one,
\* that holds a tool_use block at any position is treated as a tool request:
\* every tool_use block of it is executed and the text blocks give no tool
\* result.
C28_DetectionAnyPosition ==
    \A k \in 1..2 :
        (/\ Len(responses) >= k
         /\ ~IsNone(calls[k].tools)
         /\ RequestsTools(responses[k])
         /\ Handled(k))
        => TreatedAsToolRequest(k)

\* The texts of the text blocks of a content.
TextsOf(content) == {content[i].text : i \in {j \in 1..Len(content) : content[j].type = "text"}}

\* C29: the tool_use blocks of the response to the third call are never
\* executed, no fourth call is made, and generate_response returns the text of
\* that third response as the answer.
C29_ThirdResponseFinal ==
    (Len(responses) >= 3 /\ RequestsTools(responses[3])) =>
        /\ \A i \in 1..Len(exec_log) :
             /\ exec_log[i].round <= 2
             /\ \A j \in 1..Len(responses[3]) :
                  IsToolUse(responses[3][j]) => exec_log[i].id /= responses[3][j].id
        /\ Len(calls) = 3
        /\ pc = "done" =>
             /\ result.kind = "answer"
             /\ result.value \in TextsOf(responses[3])

\* The store of the running query when it behaves in one way only.
QueryStore == CHOOSE s \in gen_stores : TRUE

\* The executions that fail with a text: of a tool that is not registered, or
\* over a store that reports an error, finds nothing or knows no course.
FailsWithText(e) == ~Registered(tools, e.name) \/ QueryStore /= DownStore

\* The text such an execution returns.
ExpectedFailureText(e) ==
    IF ~Registered(tools, e.name) THEN "Tool '" \o e.name \o "' not found"
    ELSE IF e.name = OUTLINE_NAME THEN "No course found matching 'MCP'"
    ELSE IF QueryStore = ErrorStore THEN "Database connection failed"
    ELSE "No relevant content found."

\* The tool results sent for the request id with the call that ends round k.
ResultsSent(k, id) ==
    LET m == calls[k + 1].messages[Len(calls[k + 1].messages)]
    IN  IF m.role = "user"
        THEN SelectSeq(m.content, LAMBDA tr : tr.tool_use_id = id)
        ELSE <<>>

\* C30: a tool execution that fails with a text (tool not registered, error
\* reported by the store, course not resolved, nothing found) does not raise and
\* does not end the query: the round goes on to the next model call unless
\* another execution of the round raises, that call carries the text as the one
\* tool result of the request, and the request is executed exactly once.
C30_TextualFailureContinues ==
    \A i \in 1..Len(exec_log) :
        LET e == exec_log[i] IN
        FailsWithText(e) =>
            /\ ~e.raised
            /\ e.value = ExpectedFailureText(e)
            /\ \A j \in 1..Len(exec_log) : exec_log[j].id = e.id => j = i
            /\ (pc = "done" /\ Len(calls) = e.calls) =>
                 \E j \in 1..Len(exec_log) :
                    exec_log[j].calls = e.calls /\ exec_log[j].raised
            /\ Len(calls) > e.calls =>
                 ResultsSent(e.calls, e.id)
                    = <<[type |-> "tool_result", tool_use_id |-> e.id,
                         content |-> e.value]>>

C30_Witness ==
    /\ pc = "done"
    /\ Len(calls) = 3
    /\ result.kind = "answer"
    /\ Len(exec_log) = 4
    /\ exec_log[1].value = "Tool '" \o OUTLINE_NAME \o "' not found"
    /\ exec_log[2].value = "Database connection failed"
    /\ exec_log[3].name = SEARCH_NAME
    /\ exec_log[4].name = OUTLINE_NAME
    /\ Len(calls[3].messages[5].content) = 2

\* The last execute_tool call ran a search whose store returned an empty result
\* set without error.
SearchFoundNothing ==
    /\ SearchReturned
    /\ IsNone(SearchResultsSeen.error)
    /\ Len(SearchResultsSeen.documents) = 0

\* C31: the empty-result message of the search tool holds " in course '<name>'"
\* for every course name given and " in lesson <n>" for every lesson number
\* given, lesson number 0 included.
C31_EveryGivenFilterNamed ==
    SearchFoundNothing =>
        /\ ~mgr_ret.raised
        /\ mgr_ret.value =
             "No relevant content found"
             \o (IF "course_name" \in DOMAIN last_exec.input
                 THEN " in course '" \o last_exec.input.course_name \o "'" ELSE "")
             \o (IF "lesson_number" \in DOMAIN last_exec.input
                 THEN " in lesson " \o ToString(last_exec.input.lesson_number) ELSE "")
             \o "."

\* The four conditions on the fields of a Config.
ValidConfig(fields) ==
    /\ fields.MAX_RESULTS > 0
    /\ fields.ANTHROPIC_API_KEY /= ""
    /\ fields.CHUNK_SIZE > 0
    /\ 0 <= fields.CHUNK_OVERLAP
    /\ fields.CHUNK_OVERLAP < fields.CHUNK_SIZE

\* The configuration errors a construction with these fields may report.
ConfigErrors(fields) ==
    {"Configuration Error: MAX_RESULTS must be positive, got "
        \o ToString(fields.MAX_RESULTS) \o ". "
        \o "Setting MAX_RESULTS to 0 will cause all searches to return empty results.",
     "Configuration Error: ANTHROPIC_API_KEY is required. Please set it in your .env file.",
     "Configuration Error: CHUNK_SIZE must be positive, got " \o ToString(fields.CHUNK_SIZE),
     "Configuration Error: CHUNK_OVERLAP must be between 0 and CHUNK_SIZE. Got CHUNK_OVERLAP="
        \o ToString(fields.CHUNK_OVERLAP) \o ", CHUNK_SIZE=" \o ToString(fields.CHUNK_SIZE)}

\* C32: the construction of a Config returns exactly when MAX_RESULTS > 0, the
\* API key is not empty, CHUNK_SIZE > 0 and 0 <= CHUNK_OVERLAP < CHUNK_SIZE, and
\* raises a configuration error otherwise; a Config that was constructed has
\* the fields it was given and meets the four conditions.
C32_ConfigValidated ==
    /\ store_ret.op = "Config" =>
         /\ store_ret.raised <=> ~ValidConfig(store_ret.args)
         /\ store_ret.raised => store_ret.value \in ConfigErrors(store_ret.args)
         /\ ~store_ret.raised => config = Some(store_ret.args)
    /\ ~IsNone(config) => ValidConfig(Val(config))

C32_Witness ==
    /\ store_ret.op = "Config"
    /\ ~store_ret.raised
    /\ store_ret.args.CHUNK_OVERLAP = 0
    /\ store_ret.args.MAX_RESULTS = 1
    /\ config = Some(store_ret.args)

\* A transcript is well-formed: user and assistant messages alternate from a
\* user message to a user message, every assistant message holds a tool_use
\* block, and the user message after it holds one tool result per tool_use block
\* of it, in their order and with their ids.
WellFormed(msgs) ==
    /\ Len(msgs) % 2 = 1
    /\ \A j \in 1..Len(msgs) :
         msgs[j].role = IF j % 2 = 1 THEN "user" ELSE "assistant"
    /\ \A j \in 1..Len(msgs) :
         j % 2 = 0 =>
            LET reqs == ToolUseBlocks(msgs[j].content)
                res == msgs[j + 1].content
            IN  /\ Len(reqs) >= 1
                /\ Len(res) = Len(reqs)
                /\ \A i \in 1..Len(reqs) :
                     /\ res[i].type = "tool_result"
                     /\ res[i].tool_use_id = reqs[i].id

\* C33: the transcript of every model call of a query is well-formed, so no call
\* is made with a tool_use block that has no tool result.
C33_TranscriptWellFormed ==
    \A c \in 1..Len(calls) : WellFormed(calls[c].messages)

C33_Witness ==
    /\ Len(calls) = 3
    /\ Len(calls[3].messages) = 5
    /\ Len(calls[3].messages[2].content) = 2
    /\ calls[3].messages[2].content[1].type = "text"
    /\ Len(calls[3].messages[3].content) = 1
    /\ Len(ToolUseBlocks(calls[3].messages[4].content)) = 2
    /\ Len(calls[3].messages[5].content) = 2

\* C34: a query without a tool manager executes no tool and makes exactly one
\* model call, also when the response asks for tools.
C34_NoManagerNoTools ==
    ~in_manager =>
        /\ exec_log = <<>>
        /\ current_round = 0
        /\ Len(calls) <= 1
        /\ pc = "done" => Len(calls) = 1

C34_Witness ==
    /\ ~in_manager
    /\ pc = "done"
    /\ Len(calls) = 1
    /\ ~IsNone(calls[1].tools)
    /\ stop1 = Some("tool_use")
    /\ Len(responses[1]) = 2
    /\ responses[1][1].type = "text"
    /\ responses[1][2].type = "tool_use"
    /\ result.kind = "answer"

\* C35: every query reaches a final outcome, an answer (the text of a response
\* or the tool-failure text) or the fault of a model call, within 2 iterations
\* of the tool loop.
C35_QueryTerminates ==
    <>(/\ pc = "done"
       /\ result.kind \in {"answer", "provider_fault"}
       /\ current_round <= 2)

\* The names under which a registry holds a tool.
RegisteredNames(reg) == {reg[i].name : i \in 1..Len(reg)}

\* The registry holds one tool per name and its definitions list every
\* registered name once.
OneToolPerName(reg) ==
    /\ \A i, j \in 1..Len(reg) : reg[i].name = reg[j].name => i = j
    /\ LET defs == get_tool_definitions(reg) IN
         /\ Len(defs) = Len(reg)
         /\ \A n \in RegisteredNames(reg) :
              Cardinality({j \in 1..Len(defs) : defs[j].name = n}) = 1

\* What a step of the tool manager does to the registry: only a registration
\* that succeeds changes it; the name registered then stands for the tool just
\* given, in place of the tool it stood for before, and every other name keeps
\* its tool; an execution under a registered name runs the tool the name stands
\* for, which is therefore the tool registered last under it.
RegistryStep ==
    /\ OneToolPerName(tools')
    /\ mgr_ret'.op = "get_tool_definitions" =>
         /\ Len(mgr_ret'.value) = Cardinality(RegisteredNames(tools))
         /\ \A n \in RegisteredNames(tools) :
              \E j \in 1..Len(mgr_ret'.value) : mgr_ret'.value[j].name = n
    /\ (mgr_ret'.op = "register_tool" /\ ~mgr_ret'.raised) =>
         /\ RegisteredNames(tools') = RegisteredNames(tools) \cup {mgr_ret'.name}
         /\ Lookup(tools', mgr_ret'.name) = mgr_ret'.tool
         /\ \A n \in RegisteredNames(tools) \ {mgr_ret'.name} :
              Lookup(tools', n) = Lookup(tools, n)
    /\ ~(mgr_ret'.op = "register_tool" /\ ~mgr_ret'.raised) => tools' = tools
    /\ (mgr_ret'.op = "execute_tool" /\ Registered(tools, mgr_ret'.name)) =>
         mgr_ret'.ran = Some(Lookup(tools, mgr_ret'.name))

\* C36: after any sequence of register_tool calls the registry holds at most one
\* tool per name and get_tool_definitions lists each registered name once; a
\* registration under a registered name replaces the tool, and execute_tool runs
\* the tool registered last under the name.
C36_RegistryKeyedByName == [][RegistryStep]_vars

C36_Witness ==
    /\ mgr_ret.op = "execute_tool"
    /\ mgr_ret.name = SEARCH_NAME
    /\ mgr_ret.ran = Some("search2")
    /\ ~mgr_ret.raised
    /\ last_sources["search2"] /= <<>>
    /\ last_sources["search1"] /= <<>>
    /\ Len(tools) = 2
    /\ Len(get_tool_definitions(tools)) = 2

\* The citations the tool executions of query q can produce: those of its calls
\* over its stores, on tools that hold nothing.
CitationsOf(q) ==
    UNION {UNION {{r.srcs[inst][i] : i \in 1..Len(r.srcs[inst])} : inst \in Instances} :
             r \in {execute_tool(tools, [inst \in Instances |-> <<>>], store,
                                 call.name, call.input) :
                        store \in QueryStores(q), call \in GenToolCalls}}

\* C37: a query that runs alone after reset_sources() reads from
\* get_last_sources() only citations that its own tool executions produced,
\* none that was written before the reset.
C37_NothingFromBeforeReset ==
    max_in_flight = 1 =>
        \A q \in Queries :
            HasRead(q) =>
                /\ \A i \in 1..Len(Val(queries[q].read)) :
                     Val(queries[q].read)[i] \in CitationsOf(q)
                /\ Val(queries[q].read) /= <<>> =>
                     /\ queries[q].execs > 0
                     /\ queries[q].read_from = Some(q)

C37_Witness ==
    /\ max_in_flight = 1
    /\ queries[1].pc = "done"
    /\ Val(queries[1].read) /= <<>>
    /\ queries[1].own["search1"] /= <<>>
    /\ queries[1].own["outline1"] /= <<>>
    /\ queries[2].pc = "read"
    /\ queries[2].execs = 2
    /\ Val(queries[2].read) = <<>>

\* Execution i of the query ran the outline tool over a store whose course-name
\* resolution raises.
ResolutionFaulted(i) ==
    /\ exec_log[i].name = OUTLINE_NAME
    /\ Registered(tools, OUTLINE_NAME)
    /\ Kind(Lookup(tools, OUTLINE_NAME)) = "CourseOutlineTool"
    /\ exec_log[i].store.resolve.raised

\* C38: a fault of the course-name resolution in CourseOutlineTool.execute
\* leaves execute and execute_tool as it was raised, not as the "Error
\* retrieving course outline" string, and the query that made the execution
\* ends with the answer "Tool execution failed: <fault>", without another
\* execution or model call.
C38_ResolutionFaultPropagates ==
    \A i \in 1..Len(exec_log) :
        ResolutionFaulted(i) =>
            /\ exec_log[i].raised
            /\ exec_log[i].value = exec_log[i].store.resolve.value
            /\ i = Len(exec_log)
            /\ Len(calls) = exec_log[i].calls
            /\ pc = "done"
            /\ result = [kind |-> "answer",
                         value |-> "Tool execution failed: "
                                      \o exec_log[i].store.resolve.value]

C38_Witness ==
    /\ Len(exec_log) = 2
    /\ ~exec_log[1].raised
    /\ ResolutionFaulted(2)
    /\ exec_log[2].round = 2
    /\ pc = "done"
    /\ result.value = "Tool execution failed: store down"
    /\ Len(calls) = 2

====
